---------------------------- MODULE Spec2Model ----------------------------
(***************************************************************************)
(* WhatsApp bookkeeper: the ledger (ledger.py), the categorizer            *)
(* (categorizer.py), the field extractor's control flow (extractor.py)     *)
(* and the message handlers (whatsapp_sim.py), served either by the        *)
(* interactive loop (one message at a time) or by the Flask webhook (one   *)
(* handler thread per request).                                            *)
(*                                                                         *)
(* Text is modelled by TLA+ strings, character by character (Len, SubSeq,  *)
(* \o).  Money is an integer number of centavos.  Dates are ISO strings    *)
(* "YYYY-MM-DD", compared as Python compares str; calendar arithmetic goes *)
(* through proleptic Gregorian ordinals as datetime.date does.             *)
(***************************************************************************)
EXTENDS Integers, Sequences, FiniteSets, TLC

VARIABLES
    frontend,   \* "cli": _run_interactive loop; "webhook": Flask app.run
    apiKey,     \* config.OPENAI_API_KEY and OPENAI_AVAILABLE
    today,      \* the process clock's calendar date (ISO string)
    file,       \* the content of config.LEDGER_PATH (ledger.json)
    inflight,   \* the message handlers that have started and not yet replied
    received,   \* number of messages received so far
    query       \* last ledger query evaluated by the query specification

vars == <<frontend, apiKey, today, file, inflight, received, query>>

-----------------------------------------------------------------------------
(* Python str primitives                                                   *)

\* The characters of the model's alphabet in code point order: enough to
\* order ISO dates ('-' is U+002D, the digits U+0030..U+0039).
Digits == "0123456789"

DateAlphabet == "-0123456789"

\* the least element of a nonempty set of integers: the leftmost of the
\* positions where a pattern matches
Least(S) == CHOOSE x \in S : \A y \in S : x <= y

\* a local variable: Body of the value it is bound to
With(value, Body(_)) == Body(value)

RECURSIVE IndexBetween(_, _, _, _)
\* the first position of the character c in s[i..j], or 0, by halving
IndexBetween(c, s, i, j) ==
    IF i > j THEN 0
    ELSE IF i = j THEN (IF SubSeq(s, i, i) = c THEN i ELSE 0)
    ELSE With(IndexBetween(c, s, i, (i + j) \div 2),
              LAMBDA left : IF left # 0 THEN left
                            ELSE IndexBetween(c, s, (i + j) \div 2 + 1, j))

\* the position of the character c in the alphabet s, from i on, or 0
IndexIn(c, s, i) == IndexBetween(c, s, i, Len(s))

\* s.find(c, i - 1) + 1: the first position of c in the text s from i on, or 0
Find(c, s, i) ==
    With({j \in i..Len(s) : SubSeq(s, j, j) = c},
         LAMBDA at : IF at = {} THEN 0 ELSE Least(at))

CharAt(s, i) == SubSeq(s, i, i)

\* ord() restricted to the date alphabet
Ord(c) == IndexIn(c, DateAlphabet, 1)

\* str.__lt__ / __le__ / __ge__: lexicographic by code point, a proper prefix
\* is smaller.
RECURSIVE StrLess(_, _, _)
StrLess(a, b, i) ==
    IF i > Len(a) THEN i <= Len(b)
    ELSE IF i > Len(b) THEN FALSE
    ELSE IF CharAt(a, i) = CharAt(b, i) THEN StrLess(a, b, i + 1)
    ELSE Ord(CharAt(a, i)) < Ord(CharAt(b, i))

StrLe(a, b) == a = b \/ StrLess(a, b, 1)

StrGe(a, b) == StrLe(b, a)

DigitChar(k) == CharAt(Digits, k + 1)

DigitVal(c) == IndexIn(c, Digits, 1) - 1

\* "%02d" and "%04d"
Pad2(n) == DigitChar((n \div 10) % 10) \o DigitChar(n % 10)

Pad4(n) == Pad2(n \div 100) \o Pad2(n % 100)

RECURSIVE ParseInt(_, _, _)
ParseInt(s, i, acc) ==
    IF i > Len(s) THEN acc
    ELSE ParseInt(s, i + 1, acc * 10 + DigitVal(CharAt(s, i)))

-----------------------------------------------------------------------------
(* datetime.date: ordinals, weekday, isoformat, fromisoformat              *)

IsLeap(y) == y % 4 = 0 /\ (y % 100 # 0 \/ y % 400 = 0)

DaysInMonthTable == <<31, 28, 31, 30, 31, 30, 31, 31, 30, 31, 30, 31>>

DaysInMonth(y, m) == IF m = 2 /\ IsLeap(y) THEN 29 ELSE DaysInMonthTable[m]

DaysBeforeYear(y) ==
    (y - 1) * 365 + ((y - 1) \div 4) - ((y - 1) \div 100) + ((y - 1) \div 400)

RECURSIVE DaysBeforeMonth(_, _)
DaysBeforeMonth(y, m) ==
    IF m = 1 THEN 0 ELSE DaysBeforeMonth(y, m - 1) + DaysInMonth(y, m - 1)

\* date(year, month, day) raises ValueError unless this holds
ValidDate(y, m, d) ==
    /\ y \in 1..9999
    /\ m \in 1..12
    /\ d >= 1
    /\ d <= DaysInMonth(y, m)

ToOrdinal(dt) == DaysBeforeYear(dt.year) + DaysBeforeMonth(dt.year, dt.month) + dt.day

RECURSIVE MonthOf(_, _, _)
MonthOf(y, m, n) ==
    IF n <= DaysInMonth(y, m) THEN [year |-> y, month |-> m, day |-> n]
    ELSE MonthOf(y, m + 1, n - DaysInMonth(y, m))

\* date.fromordinal: the 400/100/4/1-year cycle decomposition
FromOrdinal(ord) ==
    LET n0   == ord - 1
        n400 == n0 \div 146097
        r400 == n0 % 146097
        n100 == r400 \div 36524
        r100 == r400 % 36524
        n4   == r100 \div 1461
        r4   == r100 % 1461
        n1   == r4 \div 365
        r1   == r4 % 365
        y    == n400 * 400 + 1 + n100 * 100 + n4 * 4 + n1
    IN  IF n1 = 4 \/ n100 = 4
        THEN [year |-> y - 1, month |-> 12, day |-> 31]
        ELSE MonthOf(y, 1, r1 + 1)

\* date.weekday(): Monday is 0
Weekday(dt) == (ToOrdinal(dt) + 6) % 7

\* date.isoformat()
IsoFormat(dt) == Pad4(dt.year) \o "-" \o Pad2(dt.month) \o "-" \o Pad2(dt.day)

\* date.fromisoformat("YYYY-MM-DD")
FromIsoFormat(s) ==
    [year  |-> ParseInt(SubSeq(s, 1, 4), 1, 0),
     month |-> ParseInt(SubSeq(s, 6, 7), 1, 0),
     day   |-> ParseInt(SubSeq(s, 9, 10), 1, 0)]

\* date +/- timedelta(days = k)
PlusDays(dt, k) == FromOrdinal(ToOrdinal(dt) + k)

-----------------------------------------------------------------------------
(* ledger.py: the store and its queries                                    *)

\* `if start_date:` / `if reference_date:` take None and "" the same way
Omitted == ""

\* The ledger file: absent (never written), whole (a complete JSON document
\* holding the list doc), empty (zero bytes, just truncated by open(.., "w"))
\* or torn (bytes that are not one complete JSON document).
AbsentFile == [kind |-> "absent", doc |-> <<>>]

WholeFile(entries) == [kind |-> "whole", doc |-> entries]

EmptyFile == [kind |-> "empty", doc |-> <<>>]

TornFile == [kind |-> "torn", doc |-> <<>>]

\* _load: json.load raises JSONDecodeError on an empty or torn document
LoadRaises(f) == f.kind \in {"empty", "torn"}

_load(f) == IF f.kind = "whole" THEN f.doc ELSE <<>>

DateFromMutant(e, start_date) == StrLess(start_date, e["date"], 1)

DateFrom(e, start_date) == StrGe(e["date"], start_date)

DateUntil(e, end_date) == StrLe(e["date"], end_date)

\* get_entries, applied to the list _load returned
get_entries(entries, start_date, end_date) ==
    LET from == IF start_date # Omitted
                THEN SelectSeq(entries, LAMBDA e : DateFrom(e, start_date))
                ELSE entries
    IN  IF end_date # Omitted
        THEN SelectSeq(from, LAMBDA e : DateUntil(e, end_date))
        ELSE from

WeekStartMutant(ref) == PlusDays(ref, 0 - ((Weekday(ref) + 1) % 7))

\* monday = ref - timedelta(days=ref.weekday())
WeekStart(ref) == PlusDays(ref, 0 - Weekday(ref))

\* get_week_entries, applied to the list _load returned; now is date.today()
get_week_entries(entries, reference_date, now) ==
    LET ref    == IF reference_date # Omitted
                  THEN FromIsoFormat(reference_date)
                  ELSE FromIsoFormat(now)
        monday == WeekStart(ref)
        sunday == PlusDays(monday, 6)
    IN  get_entries(entries, IsoFormat(monday), IsoFormat(sunday))

-----------------------------------------------------------------------------
(* Query specification: get_entries and get_week_entries as functions of   *)
(* the store, the bounds and the clock                                     *)

\* Saturday 2025-12-27; the days of the model run from here, across the
\* week Monday 2025-12-29 .. Sunday 2026-01-04 and the change of year.
FirstDay == [year |-> 2025, month |-> 12, day |-> 27]

SpanDays == 10

MaxStore == 2

QueryDates == {IsoFormat(PlusDays(FirstDay, k)) : k \in 0..(SpanDays - 1)}

QueryClock == {IsoFormat(PlusDays(FirstDay, 1)), IsoFormat(PlusDays(FirstDay, 2))}

\* uuid4 prefixes: 8 hex characters
HexId(k) == "0000000" \o DigitChar(k)

\* A stored entry as add_entry builds it; only position and date vary here.
QueryEntry(i, d) ==
    [id |-> HexId(i), timestamp |-> i, date |-> d, total |-> 1000,
     type |-> "expense", category |-> "other", description |-> "Despesa",
     items |-> <<>>]

QueryStores ==
    UNION {{[i \in 1..n |-> QueryEntry(i, ds[i])] : ds \in [1..n -> QueryDates]}
           : n \in 0..MaxStore}

NoQuery == [op |-> "none", start |-> Omitted, end |-> Omitted, ref |-> Omitted,
            out |-> <<>>]

InitQuery ==
    /\ frontend = "cli"
    /\ apiKey = FALSE
    /\ today \in QueryClock
    /\ file \in {WholeFile(st) : st \in QueryStores}
    /\ inflight = {}
    /\ received = 0
    /\ query = NoQuery

QueryGet ==
    \E s \in QueryDates \cup {Omitted}, e \in QueryDates \cup {Omitted} :
        /\ query = NoQuery
        /\ query' = [op |-> "get", start |-> s, end |-> e, ref |-> Omitted,
                     out |-> get_entries(_load(file), s, e)]
        /\ UNCHANGED <<frontend, apiKey, today, file, inflight, received>>

QueryWeek ==
    \E r \in QueryDates \cup {Omitted} :
        /\ query = NoQuery
        /\ query' = [op |-> "week", start |-> Omitted, end |-> Omitted, ref |-> r,
                     out |-> get_week_entries(_load(file), r, today)]
        /\ UNCHANGED <<frontend, apiKey, today, file, inflight, received>>

NextQuery == QueryGet \/ QueryWeek

SpecQuery == InitQuery /\ [][NextQuery]_vars

\* Calendar position of an ISO date string
OrdOf(s) == ToOrdinal(FromIsoFormat(s))

\* C5: a week query returns all and only the entries dated from the Monday
\* of the reference date's week (the reference date minus its zero-indexed
\* weekday) to the Sunday six days later, both inclusive, in calendar
\* order of days; the reference date (today when omitted) lies within them.
C5_WeekQuery ==
    query.op = "week" =>
        LET r   == IF query.ref # Omitted THEN query.ref ELSE today
            mon == OrdOf(r) - Weekday(FromIsoFormat(r))
            sun == mon + 6
        IN  /\ mon <= OrdOf(r)
            /\ OrdOf(r) <= sun
            /\ Weekday(FromOrdinal(mon)) = 0
            /\ query.out = SelectSeq(file.doc,
                   LAMBDA e : mon <= OrdOf(e.date) /\ OrdOf(e.date) <= sun)

\* A week query that kept an entry dated on the week's Monday or Sunday, in
\* another year than the reference date, and dropped an entry dated one day
\* outside the week.
C5_Witness ==
    /\ query.op = "week"
    /\ query.ref # Omitted
    /\ Len(file.doc) = 2
    /\ Len(query.out) = 1
    /\ LET mon == OrdOf(query.ref) - Weekday(FromIsoFormat(query.ref))
       IN  /\ OrdOf(query.out[1].date) \in {mon, mon + 6}
           /\ \E i \in 1..2 : OrdOf(file.doc[i].date) \in {mon - 1, mon + 7}
           /\ FromIsoFormat(query.ref).year # FromIsoFormat(query.out[1].date).year

\* C6: get(start, end) returns exactly the entries dated from start to end,
\* both inclusive, in ledger insertion order; an omitted bound is no bound.
C6_RangeQuery ==
    query.op = "get" =>
        query.out = SelectSeq(file.doc,
            LAMBDA e : /\ query.start # Omitted => OrdOf(query.start) <= OrdOf(e.date)
                       /\ query.end # Omitted => OrdOf(e.date) <= OrdOf(query.end))

\* A range query with one bound omitted whose result keeps two entries in
\* insertion order although their dates are in the opposite order.
C6_Witness ==
    /\ query.op = "get"
    /\ query.start # Omitted
    /\ query.end = Omitted
    /\ Len(query.out) = 2
    /\ query.out = file.doc
    /\ OrdOf(query.out[1].date) > OrdOf(query.out[2].date)
    /\ query.out[2].date = query.start

-----------------------------------------------------------------------------
(* Python str methods used by the extractor, the categorizer and the       *)
(* quick-entry parser                                                      *)

None == <<>>

Some(v) == <<v>>

UpperChars == "ABCDEFGHIJKLMNOPQRSTUVWXYZÁÀÂÃÉÊÍÓÔÕÚÇ"

LowerChars == "abcdefghijklmnopqrstuvwxyzáàâãéêíóôõúç"

LowerOfUpper ==
    [c \in {CharAt(UpperChars, k) : k \in 1..Len(UpperChars)} |->
        CharAt(LowerChars, Least({k \in 1..Len(UpperChars) : CharAt(UpperChars, k) = c}))]

LowerChar(c) == IF c \in DOMAIN LowerOfUpper THEN LowerOfUpper[c] ELSE c

\* str.lower()
RECURSIVE LowerFrom(_, _, _)
LowerFrom(s, i, j) ==
    IF i > j THEN ""
    ELSE IF i = j THEN LowerChar(CharAt(s, i))
    ELSE LowerFrom(s, i, (i + j) \div 2) \o LowerFrom(s, (i + j) \div 2 + 1, j)

Lower(s) == LowerFrom(s, 1, Len(s))

\* s[i:i+len(p)] == p
StartsAt(s, i, p) == i >= 1 /\ i + Len(p) - 1 <= Len(s) /\ SubSeq(s, i, i + Len(p) - 1) = p

\* kw in s
Contains(kw, s) == \E i \in 1..(Len(s) - Len(kw) + 1) : StartsAt(s, i, kw)

\* the whitespace \s and str.strip() see in the model's texts
IsSpace(c) == c \in {" ", "\t", "\n", "\r"}

DigitSet == {CharAt(Digits, k) : k \in 1..Len(Digits)}

IsDigit(c) == c \in DigitSet

\* a character of the class [\d.,]
IsAmountChar(c) == IsDigit(c) \/ c \in {".", ","}

\* the number of characters a scan for the end of a run looks at in one step
ScanWindow == 2 * 2 * 2

RECURSIVE SkipSpaces(_, _)
\* index of the first character at or after i that is not whitespace
SkipSpaces(s, i) ==
    IF i > Len(s) \/ ~IsSpace(CharAt(s, i)) THEN i
    ELSE With({k \in (i + 1)..(i + ScanWindow) : k > Len(s) \/ ~IsSpace(CharAt(s, k))},
              LAMBDA stops : IF stops # {} THEN Least(stops)
                             ELSE SkipSpaces(s, i + ScanWindow + 1))

RECURSIVE SkipSpacesBack(_, _)
\* index of the last character at or before j that is not whitespace
SkipSpacesBack(s, j) ==
    IF j < 1 \/ ~IsSpace(CharAt(s, j)) THEN j
    ELSE With({k \in (j - ScanWindow)..(j - 1) : k < 1 \/ ~IsSpace(CharAt(s, k))},
              LAMBDA stops : IF stops # {} THEN CHOOSE k \in stops : \A m \in stops : m <= k
                             ELSE SkipSpacesBack(s, j - ScanWindow - 1))

\* str.strip()
Strip(s) == SubSeq(s, SkipSpaces(s, 1), SkipSpacesBack(s, Len(s)))

RECURSIVE ReplaceFrom(_, _, _, _)
ReplaceFrom(s, i, old, new) ==
    IF i > Len(s) THEN ""
    ELSE IF StartsAt(s, i, old) THEN new \o ReplaceFrom(s, i + Len(old), old, new)
    ELSE CharAt(s, i) \o ReplaceFrom(s, i + 1, old, new)

\* str.replace(old, new), old not empty
Replace(s, old, new) == ReplaceFrom(s, 1, old, new)

RECURSIVE JoinFrom(_, _, _)
JoinFrom(sep, parts, i) ==
    IF i > Len(parts) THEN ""
    ELSE IF i = Len(parts) THEN parts[i]
    ELSE parts[i] \o sep \o JoinFrom(sep, parts, i + 1)

\* sep.join(parts)
Join(sep, parts) == JoinFrom(sep, parts, 1)

\* str.capitalize()
Capitalize(s) ==
    IF s = "" THEN ""
    ELSE With(IndexIn(CharAt(s, 1), LowerChars, 1),
              LAMBDA k : (IF k = 0 THEN CharAt(s, 1) ELSE CharAt(UpperChars, k))
                             \o Lower(SubSeq(s, 2, Len(s))))

-----------------------------------------------------------------------------
(* config.py                                                               *)

\* CATEGORY_RULES, in the dict's insertion order
CATEGORY_RULES ==
    <<<<"venda", "sales">>, <<"vendas", "sales">>, <<"sold", "sales">>,
      <<"sale", "sales">>, <<"receita", "sales">>, <<"revenue", "sales">>,
      <<"pagamento recebido", "sales">>, <<"payment received", "sales">>,
      <<"pix recebido", "sales">>, <<"fornecedor", "supplies">>,
      <<"supplier", "supplies">>, <<"material", "supplies">>,
      <<"matéria", "supplies">>, <<"insumo", "supplies">>,
      <<"ingrediente", "supplies">>, <<"estoque", "supplies">>,
      <<"stock", "supplies">>, <<"aluguel", "rent">>, <<"rent", "rent">>,
      <<"luz", "utilities">>, <<"energia", "utilities">>,
      <<"água", "utilities">>, <<"water", "utilities">>,
      <<"electricity", "utilities">>, <<"internet", "internet">>,
      <<"telefone", "phone">>, <<"phone", "phone">>,
      <<"transporte", "transport">>, <<"uber", "transport">>,
      <<"gasolina", "transport">>, <<"gas", "transport">>,
      <<"fuel", "transport">>, <<"combustível", "transport">>,
      <<"almoço", "food">>, <<"lanche", "food">>, <<"comida", "food">>,
      <<"restaurante", "food">>, <<"lunch", "food">>, <<"food", "food">>,
      <<"manutenção", "maintenance">>, <<"conserto", "maintenance">>,
      <<"repair", "maintenance">>, <<"salário", "wages">>,
      <<"funcionário", "wages">>, <<"employee", "wages">>,
      <<"salary", "wages">>, <<"wages", "wages">>>>

REVENUE_CATEGORIES == {"sales"}

-----------------------------------------------------------------------------
(* categorizer.py                                                          *)

\* the categories _categorize_with_llm accepts
ValidCategories ==
    {"sales", "supplies", "rent", "utilities", "internet", "phone", "transport",
     "food", "maintenance", "wages", "taxes", "marketing", "equipment", "other"}

\* the loop over CATEGORY_RULES from rule k on
MatchRulesFrom(text, k) ==
    With({j \in k..Len(CATEGORY_RULES) : Contains(CATEGORY_RULES[j][1], text)},
         LAMBDA found : IF found = {} THEN None
                        ELSE Some(CATEGORY_RULES[Least(found)][2]))

_match_rulesMutant(text) ==
    With({j \in 1..Len(CATEGORY_RULES) : Contains(CATEGORY_RULES[j][1], text)},
         LAMBDA found : IF found = {} THEN None
                        ELSE Some(CATEGORY_RULES[CHOOSE j \in found : \A i \in found : i <= j][2]))

\* _match_rules: the category of the first keyword found, or None
_match_rules(text) == MatchRulesFrom(text, 1)

\* the names of the items, in order
ItemNames(items) == [i \in 1..Len(items) |-> items[i]["name"]]

\* the text categorize searches
Searchable(transaction) ==
    Lower(Join(" ", <<transaction["description"], transaction["raw_text"],
                      Join(" ", ItemNames(transaction["items"]))>>))

_categorize_with_llmMutant(reply) ==
    IF reply.raised THEN [raised |-> TRUE, value |-> ""]
    ELSE [raised |-> FALSE, value |-> Lower(Strip(reply.content))]

\* _categorize_with_llm, given the reply of the chat completion: raises when
\* the call raised, else the stripped lower-cased content if it is a valid
\* category and "other" if not
_categorize_with_llm(reply) ==
    IF reply.raised THEN [raised |-> TRUE, value |-> ""]
    ELSE With(Lower(Strip(reply.content)),
              LAMBDA category :
                  [raised |-> FALSE,
                   value  |-> IF category \in ValidCategories THEN category ELSE "other"])

SaleShortcutMutant(transaction) == FALSE

\* `if transaction.get("type") == "sale"`
SaleShortcut(transaction) == transaction["type"] = "sale"

\* categorize(transaction); key is `config.OPENAI_API_KEY and OPENAI_AVAILABLE`
\* and reply the chat completion's outcome, read only on the LLM path
categorize(transaction, key, reply) ==
    IF SaleShortcut(transaction) THEN [raised |-> FALSE, value |-> "sales"]
    ELSE With(_match_rules(Searchable(transaction)),
              LAMBDA category :
                  IF category # None THEN [raised |-> FALSE, value |-> category[1]]
                  ELSE IF key THEN _categorize_with_llm(reply)
                  ELSE [raised |-> FALSE, value |-> "other"])

-----------------------------------------------------------------------------
(* Numbers: a float is held as an integer number of thousandths (three      *)
(* decimals; further decimals of an input are dropped)                     *)

Thousand == 10 * 10 * 10

RECURSIVE CountOf(_, _, _)
CountOf(c, s, i) ==
    IF i > Len(s) THEN 0
    ELSE (IF CharAt(s, i) = c THEN 1 ELSE 0) + CountOf(c, s, i + 1)

ParseFloatMutant(s) ==
    With(CountOf(".", s, 1), LAMBDA dots :
    With(IF dots = 0 THEN Len(s) + 1 ELSE IndexIn(".", s, 1), LAMBDA dot :
        IF Len(s) - dots = 0 THEN None
        ELSE IF dots > 1 THEN Some(ParseInt(Replace(s, ".", ""), 1, 0) * Thousand)
        ELSE Some(ParseInt(SubSeq(s, 1, dot - 1), 1, 0) * Thousand
                  + ParseInt(SubSeq(SubSeq(s, dot + 1, Len(s)) \o "000", 1, 3), 1, 0))))

\* float(s) for s made of digits and '.': None stands for ValueError
ParseFloat(s) ==
    With(CountOf(".", s, 1), LAMBDA dots :
    With(IF dots = 0 THEN Len(s) + 1 ELSE IndexIn(".", s, 1), LAMBDA dot :
        IF dots > 1 \/ Len(s) - dots = 0 THEN None
        ELSE Some(ParseInt(SubSeq(s, 1, dot - 1), 1, 0) * Thousand
                  + ParseInt(SubSeq(SubSeq(s, dot + 1, Len(s)) \o "000", 1, 3), 1, 0))))

\* s.replace(".", "").replace(",", ".") then float
BrazilianToFloat(s) == ParseFloat(Replace(Replace(s, ".", ""), ",", "."))

\* _parse_brazilian_number
_parse_brazilian_number(s) ==
    BrazilianToFloat(Strip(Replace(Replace(s, "R$", ""), " ", "")))

RECURSIVE AmountEnd(_, _)
\* index after the run of [\d.,] characters that starts at i
AmountEnd(s, i) ==
    IF i > Len(s) \/ ~IsAmountChar(CharAt(s, i)) THEN i
    ELSE With({k \in (i + 1)..(i + ScanWindow) : k > Len(s) \/ ~IsAmountChar(CharAt(s, k))},
              LAMBDA stops : IF stops # {} THEN Least(stops)
                             ELSE AmountEnd(s, i + ScanWindow + 1))

\* R?\$?\s*([\d.,]+) at i (r too under IGNORECASE): None, or the captured
\* token and the index after it.  The classes are disjoint, so the greedy
\* parse is the only one.
CurrencyAmountAt(s, i, ignorecase) ==
    With(IF i <= Len(s) /\ (CharAt(s, i) = "R" \/ (ignorecase /\ CharAt(s, i) = "r"))
         THEN i + 1 ELSE i, LAMBDA r :
    With(SkipSpaces(s, IF r <= Len(s) /\ CharAt(s, r) = "$" THEN r + 1 ELSE r), LAMBDA a :
    With(AmountEnd(s, a), LAMBDA z :
        IF z > a THEN Some([token |-> SubSeq(s, a, z - 1), end |-> z]) ELSE None)))

-----------------------------------------------------------------------------
(* whatsapp_sim.py: _parse_quick_entry                                     *)

QuickVerbs == <<"venda", "vendas", "sale", "receita", "despesa", "gasto", "expense", "compra">>

SaleVerbs == {"venda", "vendas", "sale", "receita"}

\* the rest of the pattern after the verb: \s+R?\$?\s*([\d.,]+)
QuickAmountAfter(t, j) ==
    With(SkipSpaces(t, j),
         LAMBDA a : IF a = j THEN None ELSE CurrencyAmountAt(t, a, TRUE))

RECURSIVE QuickMatchFrom(_, _)
\* re.match of the quick-entry pattern on t, alternatives tried in order:
\* None, or the three groups
QuickMatchFrom(t, k) ==
    IF k > Len(QuickVerbs) THEN None
    ELSE With(QuickVerbs[k], LAMBDA verb :
         With(QuickAmountAfter(t, Len(verb) + 1), LAMBDA amt :
             IF Len(t) >= Len(verb) /\ Lower(SubSeq(t, 1, Len(verb))) = verb /\ amt # None
             THEN With(SkipSpaces(t, amt[1].end), LAMBDA d0 :
                  With(Find("\n", t, d0), LAMBDA nl :
                      Some([verb |-> SubSeq(t, 1, Len(verb)), amount |-> amt[1].token,
                            rest |-> SubSeq(t, d0, IF nl = 0 THEN Len(t) ELSE nl - 1)])))
             ELSE QuickMatchFrom(t, k + 1)))

QuickTypeMutant(type_word) == IF type_word \in {"venda", "vendas"} THEN "sale" ELSE "expense"

\* tx_type = "sale" if type_word in (...) else "expense"
QuickType(type_word) == IF type_word \in SaleVerbs THEN "sale" ELSE "expense"

\* _parse_quick_entry(text) at clock date now: None, or the transaction
_parse_quick_entry(text, now) ==
    With(QuickMatchFrom(Strip(text), 1), LAMBDA match :
        IF match = None THEN None
        ELSE With(Lower(match[1].verb), LAMBDA type_word :
             With(BrazilianToFloat(match[1].amount), LAMBDA amount :
             With(Strip(match[1].rest), LAMBDA rest :
                 IF amount = None THEN None
                 ELSE Some([date |-> now, total |-> amount[1], items |-> <<>>,
                            type |-> QuickType(type_word),
                            description |-> IF rest # "" THEN rest
                                            ELSE Capitalize(type_word),
                            raw_text |-> text])))))

-----------------------------------------------------------------------------
(* extractor.py: the regular expressions, matched character by character   *)

AllDigits(s, i, n) ==
    i + n - 1 <= Len(s) /\ \A k \in i..(i + n - 1) : IsDigit(CharAt(s, k))

IsDateSep(s, i) == i <= Len(s) /\ CharAt(s, i) \in {"/", "-"}

\* (\d{1,2})[/\-](\d{1,2})[/\-](\d{4}) at i with a digits of day and b of month
DateShapeAt(s, i, a, b) ==
    /\ AllDigits(s, i, a)
    /\ IsDateSep(s, i + a)
    /\ AllDigits(s, i + a + 1, b)
    /\ IsDateSep(s, i + a + b + 1)
    /\ AllDigits(s, i + a + b + 2, 4)

DateGroups(s, i, a, b) ==
    [day   |-> ParseInt(SubSeq(s, i, i + a - 1), 1, 0),
     month |-> ParseInt(SubSeq(s, i + a + 1, i + a + b), 1, 0),
     year  |-> ParseInt(SubSeq(s, i + a + b + 2, i + a + b + 5), 1, 0)]

\* the match at i, the greedy two-digit readings tried first
DateMatchAt(s, i) ==
    IF DateShapeAt(s, i, 2, 2) THEN Some(DateGroups(s, i, 2, 2))
    ELSE IF DateShapeAt(s, i, 2, 1) THEN Some(DateGroups(s, i, 2, 1))
    ELSE IF DateShapeAt(s, i, 1, 2) THEN Some(DateGroups(s, i, 1, 2))
    ELSE IF DateShapeAt(s, i, 1, 1) THEN Some(DateGroups(s, i, 1, 1))
    ELSE None

\* re.search: the leftmost match
DateSearch(s, i) ==
    With({j \in i..Len(s) : DateMatchAt(s, j) # None},
         LAMBDA at : IF at = {} THEN None ELSE DateMatchAt(s, Least(at)))

\* _parse_date(text) at clock date now
_parse_date(text, now) ==
    With(DateSearch(text, 1),
         LAMBDA match :
             IF match # None /\ ValidDate(match[1].year, match[1].month, match[1].day)
             THEN IsoFormat(match[1])
             ELSE now)

sale_keywords ==
    <<"venda", "vendas", "recibo de venda", "sold", "sale", "pagamento recebido",
      "pix recebido">>

\* _detect_type
_detect_type(text) ==
    With(Lower(text),
         LAMBDA text_lower :
             IF \E k \in 1..Len(sale_keywords) : Contains(sale_keywords[k], text_lower)
             THEN "sale" ELSE "expense")

IsLineStart(s, i) == i = 1 \/ CharAt(s, i - 1) = "\n"

\* TOTAL\s*:?\s*R?\$?\s*([\d.,]+) at i; low is the lower-cased text
TotalAt(s, low, i) ==
    IF ~StartsAt(low, i, "total") THEN None
    ELSE With(SkipSpaces(s, i + 5),
              LAMBDA c : CurrencyAmountAt(s,
                             SkipSpaces(s, IF c <= Len(s) /\ CharAt(s, c) = ":"
                                           THEN c + 1 ELSE c), TRUE))

\* ^Valor\s*:\s*R?\$?\s*([\d.,]+) at i
ValorAt(s, low, i) ==
    IF ~(IsLineStart(s, i) /\ StartsAt(low, i, "valor")) THEN None
    ELSE With(SkipSpaces(s, i + 5),
              LAMBDA c : IF c <= Len(s) /\ CharAt(s, c) = ":"
                         THEN CurrencyAmountAt(s, SkipSpaces(s, c + 1), TRUE)
                         ELSE None)

TotalSearch(s, low, i) ==
    With({j \in i..Len(s) : TotalAt(s, low, j) # None},
         LAMBDA at : IF at = {} THEN None ELSE TotalAt(s, low, Least(at)))

ValorSearch(s, low, i) ==
    With({j \in i..Len(s) : ValorAt(s, low, j) # None},
         LAMBDA at : IF at = {} THEN None ELSE ValorAt(s, low, Least(at)))

\* _extract_total: None, or the amount
_extract_total(text) ==
    With(Lower(text), LAMBDA low :
    With(TotalSearch(text, low, 1), LAMBDA total :
        IF total # None THEN _parse_brazilian_number(total[1].token)
        ELSE With(ValorSearch(text, low, 1),
                  LAMBDA valor : IF valor # None
                                 THEN _parse_brazilian_number(valor[1].token)
                                 ELSE None)))

RECURSIVE DigitsEnd(_, _)
\* index after the run of digits that starts at i
DigitsEnd(s, i) == IF i <= Len(s) /\ IsDigit(CharAt(s, i)) THEN DigitsEnd(s, i + 1) ELSE i

\* \s*$ under MULTILINE after index z - 1: 0 when it cannot match, else the
\* index after the match (the greedy \s* gives back up to the last newline
\* of the whitespace run unless the run reaches the end of the text)
LineEndAfter(s, z) ==
    With(SkipSpaces(s, z), LAMBDA w :
        IF w > Len(s) THEN w
        ELSE With({k \in z..(w - 1) : CharAt(s, k) = "\n"},
                  LAMBDA nls : IF nls # {} THEN CHOOSE k \in nls : \A m \in nls : m <= k
                               ELSE 0))

\* \s+Qtd:\s*(\d+)\s+Valor:\s*R?\$?\s*([\d.,]+) at j
ProdutoTailAt(s, low, j) ==
    With(SkipSpaces(s, j), LAMBDA q :
    With(SkipSpaces(s, q + 4), LAMBDA d :
    With(DigitsEnd(s, d), LAMBDA de :
    With(SkipSpaces(s, de), LAMBDA v :
        IF q > j /\ StartsAt(low, q, "qtd:") /\ de > d /\ v > de
           /\ StartsAt(low, v, "valor:")
        THEN With(CurrencyAmountAt(s, SkipSpaces(s, v + 6), TRUE),
                  LAMBDA am : IF am = None THEN None
                              ELSE Some([qty |-> ParseInt(SubSeq(s, d, de - 1), 1, 0),
                                         price |-> am[1].token, end |-> am[1].end]))
        ELSE None))))

\* \s+(\d+)\s*[xX]\s+R?\$?\s*([\d.,]+)\s*$ at j
QtyTailAt(s, low, j) ==
    With(SkipSpaces(s, j), LAMBDA d :
    With(DigitsEnd(s, d), LAMBDA de :
    With(SkipSpaces(s, de), LAMBDA x :
    With(SkipSpaces(s, x + 1), LAMBDA a :
        IF d > j /\ de > d /\ x <= Len(s) /\ CharAt(s, x) \in {"x", "X"} /\ a > x + 1
        THEN With(CurrencyAmountAt(s, a, FALSE), LAMBDA am :
                 IF am = None THEN None
                 ELSE With(LineEndAfter(s, am[1].end), LAMBDA e :
                          IF e = 0 THEN None
                          ELSE Some([qty |-> ParseInt(SubSeq(s, d, de - 1), 1, 0),
                                     price |-> am[1].token, end |-> e])))
        ELSE None))))

\* \s{2,}R?\$?\s*([\d.,]+)\s*$ at j
PriceTailAt(s, low, j) ==
    With(SkipSpaces(s, j), LAMBDA a :
        IF a < j + 2 THEN None
        ELSE With(CurrencyAmountAt(s, a, FALSE), LAMBDA am :
                 IF am = None THEN None
                 ELSE With(LineEndAfter(s, am[1].end), LAMBDA e :
                          IF e = 0 THEN None
                          ELSE Some([qty |-> 1, price |-> am[1].token, end |-> e]))))

TailAt(family, s, low, j) ==
    IF family = 1 THEN ProdutoTailAt(s, low, j)
    ELSE IF family = 2 THEN QtyTailAt(s, low, j)
    ELSE PriceTailAt(s, low, j)

\* (.+?) from n0 followed by the family's tail: the shortest name, of at
\* least one character and without newline, after which the tail matches;
\* j is the first index the tail is tried at
LazyName(family, s, low, n0, j) ==
    With(Find("\n", s, j - 1), LAMBDA nl :
    With({k \in j..(IF nl = 0 THEN Len(s) ELSE nl) : TailAt(family, s, low, k) # None},
         LAMBDA at :
             IF at = {} THEN None
             ELSE Some([name |-> SubSeq(s, n0, Least(at) - 1),
                        tail |-> TailAt(family, s, low, Least(at))[1]])))

RECURSIVE ProdutoNameFrom(_, _, _, _)
\* Produto:\s*(.+?)...: the greedy \s* gives whitespace back to the name when
\* no name starting after it works; p is the index after "Produto:"
ProdutoNameFrom(s, low, p, n0) ==
    IF n0 < p THEN None
    ELSE With(IF n0 <= Len(s) THEN LazyName(1, s, low, n0, n0 + 1) ELSE None,
              LAMBDA m : IF m # None THEN m ELSE ProdutoNameFrom(s, low, p, n0 - 1))

\* the match of a family's pattern that starts at i, or None
ItemMatchAt(family, s, low, i) ==
    IF family = 1
    THEN IF StartsAt(low, i, "produto:")
         THEN ProdutoNameFrom(s, low, i + 8, SkipSpaces(s, i + 8))
         ELSE None
    ELSE IF IsLineStart(s, i) /\ i <= Len(s) THEN LazyName(family, s, low, i, i + 1)
    ELSE None

RECURSIVE FindIter(_, _, _, _)
\* pattern.finditer(text): the matches from left to right, not overlapping
FindIter(family, s, low, i) ==
    With({j \in i..Len(s) : ItemMatchAt(family, s, low, j) # None}, LAMBDA at :
        IF at = {} THEN <<>>
        ELSE With(ItemMatchAt(family, s, low, Least(at)),
                  LAMBDA m : <<m[1]>> \o FindIter(family, s, low, m[1].tail.end)))

skip_words == <<"total", "subtotal", "troco", "forma", "pgto", "pagamento", "data", "nf ">>

\* re.search(r"\d+\s*[xX]\s*$", name) on a stripped name
EndsLikeQty(name) ==
    With(SkipSpacesBack(name, Len(name) - 1),
         LAMBDA d : /\ Len(name) >= 2
                    /\ CharAt(name, Len(name)) \in {"x", "X"}
                    /\ d >= 1
                    /\ IsDigit(CharAt(name, d)))

\* the test that keeps a match of the family as an item, given the names
\* already captured
Captures(family, name, price, seen) ==
    /\ price # None
    /\ price # Some(0)
    /\ name \notin seen
    /\ family = 3 =>
          /\ ~EndsLikeQty(name)
          /\ \A k \in 1..Len(skip_words) : ~Contains(skip_words[k], Lower(name))

RECURSIVE AddItems(_, _, _, _)
\* one `for m in pattern.finditer(text)` loop over the matches ms from k on
AddItems(family, ms, k, items) ==
    IF k > Len(ms) THEN items
    ELSE With(Strip(ms[k].name), LAMBDA name :
         With(_parse_brazilian_number(ms[k].tail.price), LAMBDA price :
             IF Captures(family, name, price, {items[n]["name"] : n \in 1..Len(items)})
             THEN AddItems(family, ms, k + 1,
                      Append(items, [name |-> name, qty |-> ms[k].tail.qty,
                                     unit_price |-> price[1]]))
             ELSE AddItems(family, ms, k + 1, items)))

ItemsOfFamily(family, text, items) ==
    AddItems(family, FindIter(family, text, Lower(text), 1), 1, items)

_extract_itemsMutant(text) ==
    ItemsOfFamily(1, text, <<>>) \o ItemsOfFamily(2, text, <<>>)
        \o ItemsOfFamily(3, text, <<>>)

\* _extract_items
_extract_items(text) ==
    With(ItemsOfFamily(1, text, <<>>), LAMBDA first :
    With(ItemsOfFamily(2, text, first), LAMBDA second :
        ItemsOfFamily(3, text, second)))

RECURSIVE SumItems(_, _)
\* sum(i["qty"] * i["unit_price"] for i in items)
SumItems(items, k) ==
    IF k > Len(items) THEN 0
    ELSE items[k]["qty"] * items[k]["unit_price"] + SumItems(items, k + 1)

\* [l.strip() for l in raw_text.splitlines() if l.strip()]: the first such
\* line, or None
FirstLine(raw_text) ==
    With(Strip(raw_text), LAMBDA t :
    With(Find("\n", t, 1), LAMBDA nl :
    With(Find("\r", t, 1), LAMBDA cr :
        IF t = "" THEN None
        ELSE Some(Strip(SubSeq(t, 1, IF nl = 0 /\ cr = 0 THEN Len(t)
                                     ELSE IF nl = 0 THEN cr - 1
                                     ELSE IF cr = 0 THEN nl - 1
                                     ELSE IF nl < cr THEN nl - 1 ELSE cr - 1))))))

_extract_with_regexMutant(raw_text, user_message, now) ==
    With(raw_text \o "\n" \o user_message, LAMBDA combined :
    With(_extract_total(combined), LAMBDA found :
    With(_extract_items(combined), LAMBDA items :
        [date  |-> _parse_date(combined, now),
         total |-> IF found # None THEN found[1]
                   ELSE IF items # <<>> THEN SumItems(items, 1) ELSE 0,
         items |-> items,
         type  |-> _detect_type(combined),
         description |-> "Venda",
         raw_text |-> raw_text])))

\* _extract_with_regex(raw_text, user_message) at clock date now
_extract_with_regex(raw_text, user_message, now) ==
    With(raw_text \o "\n" \o user_message, LAMBDA combined :
    With(_detect_type(combined), LAMBDA tx_type :
    With(_extract_total(raw_text), LAMBDA found :
    With(_extract_items(raw_text), LAMBDA items :
    With(IF items # <<>> /\ found = None THEN Some(SumItems(items, 1)) ELSE found,
         LAMBDA total :
    With(FirstLine(raw_text), LAMBDA lines :
        [date  |-> _parse_date(combined, now),
         total |-> IF total = None THEN 0 ELSE total[1],
         items |-> items,
         type  |-> tx_type,
         description |->
             IF tx_type = "sale"
             THEN (IF items # <<>>
                   THEN "Venda de " \o (IF Len(items) < 10 THEN DigitChar(Len(items))
                                        ELSE Pad2(Len(items))) \o " item(s)"
                   ELSE "Venda")
             ELSE "Compra em " \o (IF lines # None THEN lines[1] ELSE "Despesa"),
         raw_text |-> raw_text]))))))

-----------------------------------------------------------------------------
(* extractor.py: extract_fields and the LLM path; ocr.py                   *)

\* _extract_with_llm, given the outcome of the chat completion: the call
\* raised, or its content is not JSON (json.loads raises), or it is the JSON
\* object data, to which raw_text is added
_extract_with_llm(text, reply) ==
    IF reply.raised \/ ~reply.json THEN [raised |-> TRUE, value |-> None]
    ELSE [raised |-> FALSE,
          value  |-> Some([date |-> reply.data.date, total |-> reply.data.total,
                           items |-> reply.data.items, type |-> reply.data.type,
                           description |-> reply.data.description, raw_text |-> text])]

\* extract_fields(raw_text, user_message)
extract_fields(raw_text, user_message, key, reply, now) ==
    IF key THEN _extract_with_llm(Strip(raw_text \o "\n" \o user_message), reply)
    ELSE [raised |-> FALSE, value |-> Some(_extract_with_regex(raw_text, user_message, now))]

\* _simulated_ocr: two of the sample receipts
OcrSamples ==
    [sale_02    |-> "VENDA #0047\nData: 22/01/2026\nBolo de cenoura     1x  R$40,00\nTorta de limão      1x  R$45,00\nSalgados (cento)    2x  R$60,00\nTOTAL: R$205,00\nPago em dinheiro",
     expense_03 |-> "RECIBO\nAluguel cozinha compartilhada\nMês: Janeiro/2026\nValor: R$800,00\nData: 05/01/2026",
     bolo       |-> "Bolo de cenoura   40,00"]

\* extract_text_from_image: FileNotFoundError when the path is no file, else
\* the text read from the image
extract_text_from_image(image) ==
    IF image \notin DOMAIN OcrSamples THEN [raised |-> TRUE, value |-> ""]
    ELSE [raised |-> FALSE, value |-> OcrSamples[image]]

-----------------------------------------------------------------------------
(* The messages, the clock and the external service replies of the model   *)

MaxMsgs == 2

NumIds == 2

IdSpace == {HexId(k) : k \in 0..(NumIds - 1)}

\* date.today(): Monday 2026-01-05
ClockDates == {"2026-01-05"}

TextBodies == {"resumo", " Limpar ", "ajuda", "bom dia", "venda 150", "despesa 12,50"}

ImageMessages ==
    {[kind |-> "image", image |-> "sale_02", body |-> ""],
     [kind |-> "image", image |-> "bolo", body |-> "vendi hoje"],
     [kind |-> "image", image |-> "missing", body |-> ""]}

Messages == {[kind |-> "text", image |-> "", body |-> b] : b \in TextBodies} \cup ImageMessages

NoReply == [raised |-> FALSE, json |-> FALSE, content |-> "", data |-> None]

CallRaised == [raised |-> TRUE, json |-> FALSE, content |-> "", data |-> None]

ContentReply(c) == [raised |-> FALSE, json |-> FALSE, content |-> c, data |-> None]

DataReply(d) == [raised |-> FALSE, json |-> TRUE, content |-> "", data |-> d]

\* outcomes of the extraction completion: an error or timeout, a content that
\* is not JSON, or an object of the prompt's schema
LlmExtractReplies ==
    {CallRaised, ContentReply("Desculpe"),
     DataReply([date |-> "2026-01-02", total |-> 40000, items |-> <<>>,
                type |-> "sale", description |-> "Bolo de cenoura"]),
     DataReply([date |-> "2026-01-05", total |-> 800000, items |-> <<>>,
                type |-> "expense", description |-> "Cozinha compartilhada"])}

\* outcomes of the categorization completion
LlmCategoryReplies == {CallRaised, ContentReply(" Food\n"), ContentReply("groceries")}

\* outcomes of the summary completion
LlmSummaryReplies == {CallRaised, ContentReply("Resumo Semanal")}

-----------------------------------------------------------------------------
(* whatsapp_sim.py and ledger.py: the message handlers                     *)

\* an entry a previous run left in the ledger file
PriorEntry ==
    [id |-> HexId(0), timestamp |-> 0, date |-> "2025-12-30", total |-> 22500,
     type |-> "expense", category |-> "supplies",
     description |-> "Compra em SUPERMERCADO BOA COMPRA", items |-> <<>>]

ClearedLedgerMutant == <<PriorEntry>>

\* clear_ledger: the list it saves
ClearedLedger == <<>>

\* A handler: the serial n of its message, the message, its position, what it
\* has computed so far, the exception that ended it ("" for none) and its
\* reply; pre is the ledger file as it was when the message arrived.
Handler(msg, pc, tx, category, raised, reply) ==
    [n |-> 0, msg |-> msg, pc |-> pc, tx |-> tx, category |-> category,
     entries |-> <<>>, entry |-> None, raised |-> raised, reply |-> reply,
     pre |-> AbsentFile]

Failed(msg, exception) == Handler(msg, "done", None, "", exception, "")

Replied(msg, reply) == Handler(msg, "done", None, "", "", reply)

\* the handler about to call add_entry(tx, category)
Adding(msg, tx, category) == Handler(msg, "load", Some(tx), category, "", "")

\* the rest of the pipeline from the transaction on: categorize, add_entry
AfterExtract(msg, tx, key, catReply) ==
    With(categorize(tx, key, catReply),
         LAMBDA c : IF c.raised THEN Failed(msg, "APIError")
                    ELSE Adding(msg, tx, c.value))

\* process_receipt up to the call of add_entry
process_receipt(msg, key, now, extReply, catReply) ==
    With(extract_text_from_image(msg.image), LAMBDA raw_text :
        IF raw_text.raised THEN Failed(msg, "FileNotFoundError")
        ELSE With(extract_fields(raw_text.value, msg.body, key, extReply, now),
                  LAMBDA tx : IF tx.raised THEN Failed(msg, "APIError")
                              ELSE AfterExtract(msg, tx.value[1], key, catReply)))

process_text_messageMutant(msg, key, now, catReply) ==
    With(Lower(Strip(msg.body)), LAMBDA msg_lower :
        IF msg_lower \in {"resumo", "resumo semanal", "summary", "weekly"}
        THEN Handler(msg, "week", None, "", "", "")
        ELSE IF msg_lower \in {"limpar", "reset", "clear"}
        THEN [Handler(msg, "open", None, "", "", "") EXCEPT !.entries = ClearedLedger]
        ELSE IF msg_lower \in {"ajuda", "help", "?"}
        THEN Replied(msg, "help")
        ELSE With(_parse_quick_entry(msg.body, now),
                  LAMBDA quick : IF quick # None
                                 THEN AfterExtract(msg, quick[1], key, catReply)
                                 ELSE [Handler(msg, "open", None, "", "", "")
                                          EXCEPT !.entries = ClearedLedger]))

\* process_text_message up to its first access to the ledger file
process_text_message(msg, key, now, catReply) ==
    With(Lower(Strip(msg.body)), LAMBDA msg_lower :
        IF msg_lower \in {"resumo", "resumo semanal", "summary", "weekly"}
        THEN Handler(msg, "week", None, "", "", "")
        ELSE IF msg_lower \in {"limpar", "reset", "clear"}
        THEN [Handler(msg, "open", None, "", "", "") EXCEPT !.entries = ClearedLedger]
        ELSE IF msg_lower \in {"ajuda", "help", "?"}
        THEN Replied(msg, "help")
        ELSE With(_parse_quick_entry(msg.body, now),
                  LAMBDA quick : IF quick # None
                                 THEN AfterExtract(msg, quick[1], key, catReply)
                                 ELSE Replied(msg, "clarify")))

\* the replies that are read on the paths a message can take
RepliesFor(msg, key) ==
    {r \in LlmExtractReplies \X LlmCategoryReplies :
        /\ (~key \/ msg.kind = "text") => r[1] = CallRaised
        /\ ~key => r[2] = CallRaised}

\* main / the webhook route: the handler of every message under every
\* configuration, date and reply
Dispatch ==
    [key \in BOOLEAN |-> [now \in ClockDates |-> [msg \in Messages |->
        [r \in RepliesFor(msg, key) |->
            IF msg.kind = "image"
            THEN process_receipt(msg, key, now, r[1], r[2])
            ELSE process_text_message(msg, key, now, r[2])]]]]

\* A message arrives and its handler runs up to its first access to the
\* ledger file.  The interactive loop takes the next input when the previous
\* reply is printed; the webhook starts a handler per request.  Only the
\* interactive loop is given image paths that do not exist.
Receive ==
    \E msg \in Messages : \E r \in RepliesFor(msg, apiKey) :
        /\ received < MaxMsgs
        /\ frontend = "cli" => inflight = {}
        /\ msg.image = "missing" => frontend = "cli"
        /\ received' = received + 1
        /\ inflight' = inflight \cup
              {[Dispatch[apiKey][today][msg][r] EXCEPT !.n = received + 1, !.pre = file]}
        /\ UNCHANGED <<frontend, apiKey, today, file, query>>

\* the handler h replaced by g
Step(h, g) == inflight' = (inflight \ {h}) \cup {g}

Raise(h, exception) == [h EXCEPT !.pc = "done", !.raised = exception]

\* the entry add_entry builds; the timestamp is the serial of the message
NewEntry(tx, category, id, n) ==
    [id |-> id, timestamp |-> n, date |-> tx["date"], total |-> tx["total"],
     type |-> tx["type"], category |-> category, description |-> tx["description"],
     items |-> tx["items"]]

AppendEntryMutant(entries, entry) == <<entry>> \o entries

\* entries.append(entry)
AppendEntry(entries, entry) == Append(entries, entry)

\* add_entry: entries = _load(), the entry with a random id, the append
AddLoad ==
    \E h \in inflight :
        /\ h.pc = "load"
        /\ IF LoadRaises(file)
           THEN Step(h, Raise(h, "JSONDecodeError"))
           ELSE \E id \in IdSpace :
                  LET entry == NewEntry(h.tx[1], h.category, id, h.n)
                  IN  Step(h, [h EXCEPT !.pc = "open", !.entry = Some(entry),
                                        !.entries = AppendEntry(_load(file), entry)])
        /\ UNCHANGED <<frontend, apiKey, today, file, received, query>>

generate_weekly_summaryMutant(entries, key, reply) ==
    IF key THEN (IF reply.raised THEN [raised |-> TRUE, value |-> ""]
                 ELSE [raised |-> FALSE, value |-> "summary_llm"])
    ELSE [raised |-> FALSE, value |-> "summary_template"]

\* generate_weekly_summary(entries), given the outcome of the summary
\* completion: the reply kind, or the exception
generate_weekly_summary(entries, key, reply) ==
    IF entries = <<>> THEN [raised |-> FALSE, value |-> "no_transactions"]
    ELSE IF key THEN (IF reply.raised THEN [raised |-> TRUE, value |-> ""]
                      ELSE [raised |-> FALSE, value |-> "summary_llm"])
    ELSE [raised |-> FALSE, value |-> "summary_template"]

\* the summary command: get_week_entries() and generate_weekly_summary
Summary ==
    \E h \in inflight : \E reply \in LlmSummaryReplies :
        /\ h.pc = "week"
        /\ IF LoadRaises(file)
           THEN Step(h, Raise(h, "JSONDecodeError"))
           ELSE LET entries == get_week_entries(_load(file), Omitted, today)
                    out == generate_weekly_summary(entries, apiKey, reply)
                IN  IF out.raised
                    THEN Step(h, [Raise(h, "APIError") EXCEPT !.entries = entries])
                    ELSE Step(h, [h EXCEPT !.pc = "done", !.entries = entries,
                                           !.reply = out.value])
        /\ UNCHANGED <<frontend, apiKey, today, file, received, query>>

\* _save: open(LEDGER_PATH, "w") truncates the file
SaveOpen ==
    \E h \in inflight :
        /\ h.pc = "open"
        /\ file' = EmptyFile
        /\ Step(h, [h EXCEPT !.pc = "write"])
        /\ UNCHANGED <<frontend, apiKey, today, received, query>>

\* _save: open raises OSError; the file is as it was
SaveOpenFails ==
    \E h \in inflight :
        /\ h.pc = "open"
        /\ Step(h, Raise(h, "OSError"))
        /\ UNCHANGED <<frontend, apiKey, today, file, received, query>>

\* What the file holds once a writer has written the document doc from
\* offset 0 and closed: the document, unless another writer's longer content
\* was there, whose tail then follows it.  "[]" is the shortest document;
\* of two documents with entries either may be the longer.
WrittenOver(f, doc) ==
    IF f.kind = "empty" \/ (f.kind = "whole" /\ f.doc = <<>>) THEN {WholeFile(doc)}
    ELSE IF doc = <<>> THEN {TornFile}
    ELSE {WholeFile(doc), TornFile}

WriterReply(h) == IF h.entry = None THEN "cleared" ELSE "confirm"

\* _save: json.dump and the close of the file; then the reply is built
SaveWrite ==
    \E h \in inflight :
        /\ h.pc = "write"
        /\ file' \in WrittenOver(file, h.entries)
        /\ Step(h, [h EXCEPT !.pc = "done", !.reply = WriterReply(h)])
        /\ UNCHANGED <<frontend, apiKey, today, received, query>>

\* _save: a write raises OSError with none or a part of the document written
SaveWriteFails ==
    \E h \in inflight :
        /\ h.pc = "write"
        /\ file' \in {file, TornFile}
        /\ Step(h, Raise(h, "OSError"))
        /\ UNCHANGED <<frontend, apiKey, today, received, query>>

\* The reply is printed or sent (or the request answered with an error) and
\* the handler ends; an exception ends the interactive loop itself.
Reply ==
    \E h \in inflight :
        /\ h.pc = "done"
        /\ frontend = "cli" => h.raised = ""
        /\ inflight' = inflight \ {h}
        /\ UNCHANGED <<frontend, apiKey, today, file, received, query>>

Init ==
    /\ frontend \in {"cli", "webhook"}
    /\ apiKey \in BOOLEAN
    /\ today \in ClockDates
    /\ file \in {AbsentFile, WholeFile(<<PriorEntry>>)}
    /\ inflight = {}
    /\ received = 0
    /\ query = NoQuery

Next ==
    \/ Receive
    \/ AddLoad
    \/ Summary
    \/ SaveOpen
    \/ SaveOpenFails
    \/ SaveWrite
    \/ SaveWriteFails
    \/ Reply

Spec == Init /\ [][Next]_vars

\* the interactive loop alone: one message at a time
InitInteractive == Init /\ frontend = "cli"

SpecInteractive == InitInteractive /\ [][Next]_vars

-----------------------------------------------------------------------------
(* Properties of the message pipeline                                      *)

\* the handler's add_entry or clear_ledger returned and the reply is built
Returned(h, reply) == h.pc = "done" /\ h.raised = "" /\ h.reply = reply

\* a receipt or a quick-entry message
IsBooking(msg) == msg.kind = "image" \/ _parse_quick_entry(msg.body, today) # None

\* the entry carries the transaction's fields and the category
Carries(entry, tx, category) ==
    /\ entry.date = tx["date"]
    /\ entry.total = tx["total"]
    /\ entry.type = tx["type"]
    /\ entry.description = tx["description"]
    /\ entry.items = tx["items"]
    /\ entry.category = category

\* C1: concurrent adds never lose an update: when every message received so
\* far was an add and all of them have returned, the persisted store holds
\* the entries it held before the first of them plus one entry per add.
C1_NoLostUpdate ==
    (received > 0 /\ Cardinality(inflight) = received
       /\ \A h \in inflight : Returned(h, "confirm"))
    => /\ file.kind = "whole"
       /\ \A h \in inflight : \E i \in 1..Len(file.doc) : file.doc[i] = h.entry[1]
       /\ \A h \in inflight :
              h.n = 1 => Len(file.doc) = Len(_load(h.pre)) + Cardinality(inflight)

\* C2: the persisted ledger is replaced atomically: no reader fails on an
\* empty or partly written file while another handler is inside its save.
C2_AtomicReplace ==
    \A r \in inflight : \A w \in inflight :
        ~(r.raised = "JSONDecodeError" /\ w.pc = "write")

\* C3: processing one receipt or quick entry in the interactive loop is all
\* or nothing: when it ends with its confirmation the persisted store is the
\* previous store plus exactly one complete entry, and when it ends with an
\* exception or a clarification the persisted store is what it was.
C3_AllOrNothing ==
    frontend = "cli" =>
        \A h \in inflight :
            (h.pc = "done" /\ IsBooking(h.msg)) =>
                IF Returned(h, "confirm")
                THEN /\ file = WholeFile(Append(_load(h.pre), h.entry[1]))
                     /\ Carries(h.entry[1], h.tx[1], h.category)
                ELSE file = h.pre

\* C4: the external services fail open: no message ends with the error of a
\* completion call.
C4_FailOpen == \A h \in inflight : h.raised # "APIError"

\* C7: add is append-only: after an add of the interactive loop returned, the
\* store is the store the message found, unchanged and in order, followed by
\* one new entry that carries the transaction's date, total, type,
\* description and items and the category given.
C7_AppendOnly ==
    \A h \in inflight :
        Returned(h, "confirm") =>
            /\ file.kind = "whole"
            /\ Len(file.doc) = Len(_load(h.pre)) + 1
            /\ SubSeq(file.doc, 1, Len(_load(h.pre))) = _load(h.pre)
            /\ Carries(file.doc[Len(file.doc)], h.tx[1], h.category)
            /\ file.doc[Len(file.doc)] = h.entry[1]

\* An add returned that found two entries in the store, the second of them
\* with items.
C7_Witness ==
    \E h \in inflight :
        /\ Returned(h, "confirm")
        /\ h.pre.kind = "whole"
        /\ Len(h.pre.doc) = 2
        /\ h.pre.doc[1] = PriorEntry
        /\ h.pre.doc[2].items # <<>>
        /\ Len(file.doc) = 3

\* C8: an add gives its entry an id that no entry already in the ledger has:
\* the ids of the persisted entries are pairwise different.
C8_FreshIds ==
    file.kind = "whole" =>
        \A i \in 1..Len(file.doc) : \A j \in 1..Len(file.doc) :
            i # j => file.doc[i].id # file.doc[j].id

\* C9: clear empties the store: when clear has returned the store is the
\* empty collection and get, with any bounds, and getWeek, with any reference
\* date, return nothing; a summary asked of the cleared store finds no
\* entry; and the first add after a clear leaves exactly its one entry.
C9_ClearEmpties ==
    \A h \in inflight :
        /\ Returned(h, "cleared") =>
              /\ file = WholeFile(<<>>)
              /\ \A s \in QueryDates \cup {Omitted} : \A e \in QueryDates \cup {Omitted} :
                     get_entries(_load(file), s, e) = <<>>
              /\ \A ref \in QueryDates \cup {Omitted} :
                     get_week_entries(_load(file), ref, today) = <<>>
        /\ (h.pc = "done" /\ h.msg.body = "resumo" /\ h.pre = WholeFile(<<>>)) =>
              h.entries = <<>> /\ Returned(h, "no_transactions")
        /\ (Returned(h, "confirm") /\ h.pre = WholeFile(<<>>)) =>
              file = WholeFile(<<h.entry[1]>>)

\* A clear of a store that held an entry has returned.
C9_Witness ==
    \E h \in inflight :
        /\ Returned(h, "cleared")
        /\ h.pre.kind = "whole"
        /\ h.pre.doc # <<>>
        /\ file = WholeFile(<<>>)

\* C10: every entry the pipeline creates for a transaction of type sale has
\* the category "sales", whatever its text and whatever the categorization
\* service would answer.
C10_SaleIsSales ==
    /\ \A h \in inflight :
           (h.tx # None /\ h.tx[1]["type"] = "sale") =>
               /\ h.category = "sales"
               /\ h.entry # None => h.entry[1].category = "sales"
    /\ \A i \in 1..Len(file.doc) : file.doc[i].type = "sale" => file.doc[i].category = "sales"

\* A sale the extraction service reported for a receipt whose text holds no
\* keyword of the rules has been recorded.
C10_Witness ==
    \E h \in inflight :
        /\ Returned(h, "confirm")
        /\ apiKey
        /\ h.msg.image = "bolo"
        /\ h.tx[1]["type"] = "sale"
        /\ _match_rules(Searchable(h.tx[1])) = None
        /\ file.doc[Len(file.doc)].category = "sales"

-----------------------------------------------------------------------------
(* Categorizer specification: categorize as a function of the message that *)
(* produced the transaction, the configuration and the service replies     *)

\* quick entries
CategorizerBodies ==
    {"despesa 12,50", "compra 50 material para revenda", "gasto 30 uber",
     "venda 150", "gasto 20 taxi", "expense 45 lunch", "despesa 80 receita medica",
     "Gasto 99,90 Internet", "compra 300 estoque", "sale 85 custom cake order",
     "expense 45 lunch with parent", "despesa 60 conserto do telefone do fornecedor"}

\* receipt texts as the OCR returns them
CategorizerReceipts ==
    {OcrSamples.bolo, OcrSamples.expense_03, "RECEITA FEDERAL\nDARF   150,00",
     "Posto Shell\nGasolina  2x  R$50,00", ""}

CategorizerCaptions == {"", "pix recebido"}

CategorizerMessages ==
    {[kind |-> "text", raw |-> "", body |-> b] : b \in CategorizerBodies}
    \cup {[kind |-> "image", raw |-> t, body |-> c] :
             t \in CategorizerReceipts, c \in CategorizerCaptions}

InitCategorize ==
    /\ frontend = "cli"
    /\ apiKey \in BOOLEAN
    /\ today \in ClockDates
    /\ file = AbsentFile
    /\ inflight = {}
    /\ received = 0
    /\ query = NoQuery

\* the transaction a message gives: extract_fields or _parse_quick_entry
TransactionOf(msg, key, extReply, now) ==
    IF msg.kind = "image"
    THEN With(extract_fields(msg.raw, msg.body, key, extReply, now),
              LAMBDA tx : IF tx.raised THEN None ELSE tx.value)
    ELSE _parse_quick_entry(msg.body, now)

\* category = categorize(tx) in process_receipt and process_text_message
Categorize ==
    \E msg \in CategorizerMessages :
      \E r \in RepliesFor([kind |-> msg.kind], apiKey) :
        /\ query = NoQuery
        /\ TransactionOf(msg, apiKey, r[1], today) # None
        /\ query' = With(TransactionOf(msg, apiKey, r[1], today)[1], LAMBDA tx :
                        [op |-> "categorize", tx |-> tx, reply |-> r[2],
                         rule |-> _match_rules(Searchable(tx)),
                         out |-> categorize(tx, apiKey, r[2])])
        /\ UNCHANGED <<frontend, apiKey, today, file, inflight, received>>

NextCategorize == Categorize

SpecCategorize == InitCategorize /\ [][NextCategorize]_vars

\* C11: the rule table never produces "sales" for an expense: for every
\* transaction of type expense, from the extractor or from an expense-verb
\* quick entry, the rule-based categorizer does not return "sales".
C11_NoSalesForExpense ==
    (query.op = "categorize" /\ query.tx["type"] = "expense") =>
        /\ query.rule # Some("sales")
        /\ ~query.out.raised => query.out.value # "sales"

\* C12: every category the categorizer returns belongs to the closed
\* vocabulary: every rule's category does, the sale shortcut's does, a
\* service response is kept only if it is in the vocabulary (trimmed and
\* lower-cased) and is replaced by "other" if not, and the final fallback
\* without a service is "other".
C12_ClosedVocabulary ==
    /\ \A k \in 1..Len(CATEGORY_RULES) : CATEGORY_RULES[k][2] \in ValidCategories
    /\ (query.op = "categorize" /\ ~query.out.raised) =>
          /\ query.out.value \in ValidCategories
          /\ (query.tx["type"] # "sale" /\ query.rule = None) =>
                query.out.value =
                    IF apiKey /\ Lower(Strip(query.reply.content)) \in ValidCategories
                    THEN Lower(Strip(query.reply.content))
                    ELSE "other"

\* An expense that no rule matches got "other" for a service response that
\* is not in the vocabulary.
C12_Witness ==
    /\ query.op = "categorize"
    /\ apiKey
    /\ query.tx["type"] = "expense"
    /\ query.rule = None
    /\ query.reply.content = "groceries"
    /\ query.out = [raised |-> FALSE, value |-> "other"]

\* An expense that no rule matches kept the service's answer, in the
\* vocabulary once trimmed and lower-cased.
C12_WitnessAccepted ==
    /\ query.op = "categorize"
    /\ query.rule = None
    /\ query.reply.content = " Food\n"
    /\ query.out = [raised |-> FALSE, value |-> "food"]

-----------------------------------------------------------------------------
(* ledger.py: summary_stats.  A dict is the sequence of its <<key, value>>  *)
(* pairs in insertion order.                                               *)

DictKeys(d) == {d[k][1] : k \in 1..Len(d)}

\* d.get(key, 0.0)
DictGet(d, key) ==
    IF key \in DictKeys(d) THEN d[CHOOSE k \in 1..Len(d) : d[k][1] = key][2] ELSE 0

DictAddMutant(d, key, amount) ==
    IF key \in DictKeys(d)
    THEN [k \in 1..Len(d) |-> IF d[k][1] = key THEN <<key, amount>> ELSE d[k]]
    ELSE Append(d, <<key, amount>>)

\* d[key] = d.get(key, 0.0) + amount: a new key goes last, a known key keeps
\* its place
DictAdd(d, key, amount) ==
    IF key \in DictKeys(d)
    THEN [k \in 1..Len(d) |-> IF d[k][1] = key THEN <<key, d[k][2] + amount>> ELSE d[k]]
    ELSE Append(d, <<key, amount>>)

IsSaleMutant(entry) == entry.category \in REVENUE_CATEGORIES

\* `if entry.get("type") == "sale"`
IsSale(entry) == entry.type = "sale"

\* entry.get("category", "other")
EntryCategory(entry) ==
    IF "category" \in DOMAIN entry THEN entry.category ELSE "other"

\* item.get("qty", 1) * item.get("unit_price", 0)
ItemTotal(item) == item["qty"] * item["unit_price"]

RECURSIVE AddItemTotals(_, _, _)
\* `for item in entry.get("items", [])`, from item k on
AddItemTotals(item_totals, items, k) ==
    IF k > Len(items) THEN item_totals
    ELSE AddItemTotals(DictAdd(item_totals, items[k]["name"], ItemTotal(items[k])),
                       items, k + 1)

\* the accumulators before the loop over the entries
NoStats ==
    [total_sales |-> 0, total_expenses |-> 0, num_sales |-> 0, num_expenses |-> 0,
     by_category |-> <<>>, item_totals |-> <<>>]

\* one turn of `for entry in entries`
Accumulate(acc, entry) ==
    [total_sales    |-> acc.total_sales + (IF IsSale(entry) THEN entry.total ELSE 0),
     total_expenses |-> acc.total_expenses + (IF IsSale(entry) THEN 0 ELSE entry.total),
     num_sales      |-> acc.num_sales + (IF IsSale(entry) THEN 1 ELSE 0),
     num_expenses   |-> acc.num_expenses + (IF IsSale(entry) THEN 0 ELSE 1),
     by_category    |-> DictAdd(acc.by_category, EntryCategory(entry), entry.total),
     item_totals    |-> AddItemTotals(acc.item_totals, entry.items, 1)]

RECURSIVE AccumulateFrom(_, _, _)
AccumulateFrom(acc, entries, k) ==
    IF k > Len(entries) THEN acc
    ELSE AccumulateFrom(Accumulate(acc, entries[k]), entries, k + 1)

OvertakesMutant(x, p) == x[2] >= p[2]

\* sorted(..., key=lambda x: x[1], reverse=True) puts the pair x before a pair
\* p that precedes it in the input: the sort is stable, also under reverse,
\* so x overtakes p only with a greater value
Overtakes(x, p) == x[2] > p[2]

\* the pair x put into the sorted pairs ps, all of which precede x in the input
InsertSorted(ps, x) ==
    With(Cardinality({k \in 1..Len(ps) : ~Overtakes(x, ps[k])}), LAMBDA n :
        SubSeq(ps, 1, n) \o <<x>> \o SubSeq(ps, n + 1, Len(ps)))

RECURSIVE SortedFrom(_, _, _)
SortedFrom(ps, d, k) ==
    IF k > Len(d) THEN ps ELSE SortedFrom(InsertSorted(ps, d[k]), d, k + 1)

\* sorted(d.items(), key=lambda x: x[1], reverse=True)
SortedByValue(d) == SortedFrom(<<>>, d, 1)

TopCount == 5

\* [{"name": n, "total": t} for n, t in sorted_items[:5]]
TopItems(item_totals) ==
    With(SortedByValue(item_totals), LAMBDA sorted_items :
        [k \in 1..(IF Len(sorted_items) < TopCount THEN Len(sorted_items) ELSE TopCount)
            |-> [name |-> sorted_items[k][1], total |-> sorted_items[k][2]]])

\* summary_stats(entries)
summary_stats(entries) ==
    With(AccumulateFrom(NoStats, entries, 1), LAMBDA acc :
        [total_sales    |-> acc.total_sales,
         total_expenses |-> acc.total_expenses,
         profit         |-> acc.total_sales - acc.total_expenses,
         num_sales      |-> acc.num_sales,
         num_expenses   |-> acc.num_expenses,
         by_category    |-> acc.by_category,
         top_items      |-> TopItems(acc.item_totals)])

-----------------------------------------------------------------------------
(* summarizer.py.  The pictographs and the bullet that open the lines of   *)
(* the source's literals are outside the model's alphabet and left out;    *)
(* its long dash is written '-'.                                           *)

RECURSIVE IntToStr(_)
\* str(n), n >= 0
IntToStr(n) == IF n < 10 THEN DigitChar(n) ELSE IntToStr(n \div 10) \o DigitChar(n % 10)

RECURSIVE Grouped(_)
\* the ',' option of the format spec on the digits s of the integer part
Grouped(s) ==
    IF Len(s) <= 3 THEN s
    ELSE Grouped(SubSeq(s, 1, Len(s) - 3)) \o "," \o SubSeq(s, Len(s) - 2, Len(s))

\* the hundredths of the '.2f' conversion of v thousandths, v >= 0: the
\* nearest hundredth; a final 5 of the thousandths is a tie in decimal only,
\* settled here to even as for the ties a binary float holds exactly
Hundredths(v) ==
    IF v % 10 > 5 \/ (v % 10 = 5 /\ (v \div 10) % 2 = 1) THEN v \div 10 + 1 ELSE v \div 10

\* f"{value:,.2f}"
FormatFixed(value) ==
    With(Hundredths(IF value < 0 THEN 0 - value ELSE value), LAMBDA h :
        (IF value < 0 THEN "-" ELSE "") \o Grouped(IntToStr(h \div 100))
            \o "." \o Pad2(h % 100))

FormatSwapMutant(s) == Replace(Replace(s, ".", ","), "X", ".")

\* .replace(",", "X").replace(".", ",").replace("X", ".")
FormatSwap(s) == Replace(Replace(Replace(s, ",", "X"), ".", ","), "X", ".")

\* _format_brl
_format_brl(value) == FormatSwap("R$" \o FormatFixed(value))

\* a / b on floats, kept as the exact fraction; None stands for
\* ZeroDivisionError
Quotient(a, b) == IF b = 0 THEN None ELSE Some([num |-> a, den |-> b])

\* ratio > 1.5, for a ratio with a positive denominator
ExceedsOneAndHalf(ratio) == ratio.num * 2 > ratio.den * 3

SupplierAdvice ==
    "Suas despesas são muito maiores que suas vendas. "
        \o "Revise os gastos com fornecedores e procure alternativas mais baratas."

PricingAdvice ==
    "Despesas próximas do valor de vendas. "
        \o "Considere aumentar os preços em 10-15% ou reduzir custos de insumos."

GenericAdvice == "Continue registrando todas as transações para insights mais precisos!"

TopExpenseAdvice(top_expense, top_amount) ==
    "Seu maior gasto é '" \o top_expense \o "' (" \o top_amount \o "). "
        \o "Negocie com fornecedores ou busque alternativas para reduzir esse custo."

TopItemAdvice(top) ==
    "'" \o top.name \o "' é seu item mais movimentado (" \o _format_brl(top.total) \o "). "
        \o "Considere aumentar o preço em R$1-2 - pequenos ajustes somam no fim do mês."

\* `if stats["total_expenses"] > stats["total_sales"] > 0`
ExpensesExceedSales(stats) ==
    stats.total_expenses > stats.total_sales /\ stats.total_sales > 0

RatioAdviceMutant(ratio) == IF ratio.num > ratio.den THEN SupplierAdvice ELSE PricingAdvice

\* `if ratio > 1.5: return ...` and the return after it
RatioAdvice(ratio) == IF ExceedsOneAndHalf(ratio) THEN SupplierAdvice ELSE PricingAdvice

ExpenseCatsMutant(by_category) == by_category

\* {k: v for k, v in by_category.items() if k not in config.REVENUE_CATEGORIES}
ExpenseCats(by_category) == SelectSeq(by_category, LAMBDA p : p[1] \notin REVENUE_CATEGORIES)

\* max(d, key=d.get), d not empty: the first key that has the greatest value
MaxKey(d) == d[Least({k \in 1..Len(d) : \A j \in 1..Len(d) : d[j][2] <= d[k][2]})][1]

AdviceAfterRatioMutant(stats) ==
    With(ExpenseCats(stats.by_category), LAMBDA expense_cats :
        IF stats.profit > 0 /\ stats.by_category # <<>> /\ expense_cats # <<>>
        THEN With(MaxKey(expense_cats), LAMBDA top_expense :
                 TopExpenseAdvice(top_expense,
                                  _format_brl(DictGet(expense_cats, top_expense))))
        ELSE IF stats.top_items # <<>> THEN TopItemAdvice(stats.top_items[Len(stats.top_items)])
        ELSE GenericAdvice)

\* _generate_action from its second branch on
AdviceAfterRatio(stats) ==
    With(ExpenseCats(stats.by_category), LAMBDA expense_cats :
        IF stats.profit > 0 /\ stats.by_category # <<>> /\ expense_cats # <<>>
        THEN With(MaxKey(expense_cats), LAMBDA top_expense :
                 TopExpenseAdvice(top_expense,
                                  _format_brl(DictGet(expense_cats, top_expense))))
        ELSE IF stats.top_items # <<>> THEN TopItemAdvice(stats.top_items[1])
        ELSE GenericAdvice)

\* _generate_action(stats): the recommendation, or the exception raised
_generate_action(stats) ==
    IF ExpensesExceedSales(stats)
    THEN With(Quotient(stats.total_expenses, stats.total_sales), LAMBDA ratio :
             IF ratio = None THEN [raised |-> TRUE, value |-> ""]
             ELSE [raised |-> FALSE, value |-> RatioAdvice(ratio[1])])
    ELSE [raised |-> FALSE, value |-> AdviceAfterRatio(stats)]

ActionMark == "*Ação:* "

\* the lines of the category breakdown
CategoryLines(by_category) ==
    IF by_category = <<>> THEN <<>>
    ELSE With(SortedByValue(by_category), LAMBDA sorted_cats :
             <<"*Por categoria:*">>
                 \o [k \in 1..Len(sorted_cats) |->
                        "  " \o sorted_cats[k][1] \o ": " \o _format_brl(sorted_cats[k][2])]
                 \o <<"">>)

\* lines.append(f"... *Ação:* {action}")
ActionLines(action) == <<ActionMark \o action>>

\* _summarize_with_template(stats, label)
_summarize_with_template(stats, label) ==
    With(_generate_action(stats), LAMBDA action :
        IF action.raised THEN [raised |-> TRUE, value |-> ""]
        ELSE [raised |-> FALSE,
              value  |-> Join("\n",
                  <<"*Resumo " \o label \o "*\n",
                    "Vendas: " \o _format_brl(stats.total_sales) \o " ("
                        \o IntToStr(stats.num_sales) \o " transação(ões))",
                    "Despesas: " \o _format_brl(stats.total_expenses) \o " ("
                        \o IntToStr(stats.num_expenses) \o " transação(ões))",
                    (IF stats.profit > 0 THEN "Lucro"
                     ELSE IF stats.profit < 0 THEN "Prejuízo" ELSE "Empate")
                        \o ": " \o _format_brl(stats.profit) \o "\n">>
                  \o CategoryLines(stats.by_category)
                  \o ActionLines(action.value))])

\* the message generate_weekly_summary returns for no entries
NoTransactions(label) ==
    "*Resumo " \o label \o "*\n\n" \o "Nenhuma transação registrada neste período.\n"
        \o "Envie fotos de recibos ou mensagens para começar!"

\* _summarize_with_llm, once the completion has returned
_summarize_with_llm(reply) == Strip(reply.content)

-----------------------------------------------------------------------------
(* Summary specification: the summary command as a function of the ledger,  *)
(* the configuration and the service reply                                 *)

MaxEntries == 3

Item(name, qty, unit_price) == [name |-> name, qty |-> qty, unit_price |-> unit_price]

\* an entry as add_entry builds it; id and timestamp are set by position
SummaryEntry(date, total, type, category, description, items) ==
    [id |-> HexId(0), timestamp |-> 0, date |-> date, total |-> total, type |-> type,
     category |-> category, description |-> description, items |-> items]

\* entries of the week of the clock date, and one of the week before
SummaryEntries ==
    {SummaryEntry("2026-01-05", 100000, "sale", "sales", "Venda de 2 item(s)",
                  <<Item("Bolo de cenoura", 1, 40000), Item("Torta de limão", 1, 60000)>>),
     SummaryEntry("2026-01-06", 109800, "expense", "supplies", "Compra em NOTA FISCAL",
                  <<Item("Farinha de trigo 5kg", 1, 22500),
                    Item("Chocolate em pó 1kg", 1, 18900),
                    Item("Leite condensado 6un", 1, 35400),
                    Item("Manteiga 500g", 1, 12000), Item("Ovos 30un", 1, 21000)>>),
     SummaryEntry("2026-01-05", 150000, "expense", "rent", "Compra em RECIBO", <<>>),
     SummaryEntry("2026-01-07", 200000, "expense", "other", "Despesa", <<>>),
     SummaryEntry("2026-01-11", 60000, "expense", "transport", "Compra em Posto Shell",
                  <<Item("Gasolina", 2, 30000)>>),
     SummaryEntry("2026-01-05", 50000, "expense", "sales", "material para revenda", <<>>),
     SummaryEntry("2026-01-08", 30000, "expense", "phone", "Telefone", <<>>),
     SummaryEntry("2026-01-09", 30000, "expense", "food", "Lanche", <<>>),
     PriorEntry}

SummaryStores ==
    UNION {{[i \in 1..n |-> [es[i] EXCEPT !.id = HexId(i), !.timestamp = i]] :
               es \in [1..n -> SummaryEntries]} : n \in 0..MaxEntries}

InitSummary ==
    /\ frontend = "cli"
    /\ apiKey \in BOOLEAN
    /\ today \in ClockDates
    /\ file \in {WholeFile(st) : st \in SummaryStores}
    /\ inflight = {}
    /\ received = 0
    /\ query = NoQuery

\* What a call of generate_weekly_summary(entries, label) does: the Stats it
\* computes (None: summary_stats is not called), whether it calls the
\* completion service, the recommendation of the advisor (None: not asked),
\* and the text it returns (None: an exception leaves it)
SummaryRun(entries, key, reply, label) ==
    With(generate_weekly_summary(entries, key, reply), LAMBDA out :
        IF ~out.raised /\ out.value = "no_transactions"
        THEN [stats |-> None, called |-> FALSE, action |-> None,
              text |-> Some(NoTransactions(label))]
        ELSE With(summary_stats(entries), LAMBDA stats :
            IF out.raised
            THEN [stats |-> Some(stats), called |-> TRUE, action |-> None, text |-> None]
            ELSE IF out.value = "summary_llm"
            THEN [stats |-> Some(stats), called |-> TRUE, action |-> None,
                  text |-> Some(_summarize_with_llm(reply))]
            ELSE With(_generate_action(stats), LAMBDA action :
                 With(_summarize_with_template(stats, label), LAMBDA text :
                     [stats |-> Some(stats), called |-> FALSE,
                      action |-> IF action.raised THEN None ELSE Some(action.value),
                      text |-> IF text.raised THEN None ELSE Some(text.value)]))))

\* process_text_message, the summary command:
\* generate_weekly_summary(get_week_entries())
Summarize ==
    \E reply \in LlmSummaryReplies :
        /\ query = NoQuery
        /\ ~apiKey => reply = CallRaised
        /\ query' = With(get_week_entries(_load(file), Omitted, today), LAMBDA entries :
                        [op |-> "summary", entries |-> entries, reply |-> reply,
                         run |-> SummaryRun(entries, apiKey, reply, "Semanal")])
        /\ UNCHANGED <<frontend, apiKey, today, file, inflight, received>>

NextSummary == Summarize

SpecSummary == InitSummary /\ [][NextSummary]_vars

\* the number of positions from i on at which text holds mark
CountAt(mark, text, i) ==
    Cardinality({j \in i..(Len(text) - Len(mark) + 1) : StartsAt(text, j, mark)})

\* C13: every summary of a period with entries carries exactly one
\* recommendation: the text returned holds exactly one line of the advisor,
\* and the advisor returns one recommendation for every Stats record.
C13_OneRecommendation ==
    (query.op = "summary" /\ query.entries # <<>>) =>
        /\ query.run.text # None
        /\ CountAt(ActionMark, query.run.text[1], 1) = 1
        /\ ~_generate_action(query.run.stats[1]).raised

\* the same for the template renderer alone, with no service configured
TemplateOneRecommendation ==
    (query.op = "summary" /\ query.entries # <<>> /\ ~apiKey) =>
        /\ query.run.text # None
        /\ query.run.action # None
        /\ CountAt(ActionMark, query.run.text[1], 1) = 1
        /\ CountAt("\n" \o ActionMark \o query.run.action[1], query.run.text[1], 1) = 1

\* C14: for an empty entry sequence the summary is the fixed "no
\* transactions in this period" message; no Stats are computed, the advisor
\* is not asked and the completion service is not called.
C14_EmptyPeriod ==
    (query.op = "summary" /\ query.entries = <<>>) =>
        /\ query.run.text = Some(NoTransactions("Semanal"))
        /\ query.run.stats = None
        /\ query.run.action = None
        /\ ~query.run.called

\* The summary command, with the service configured, on a ledger whose
\* entries are all of another week.
C14_Witness ==
    /\ query.op = "summary"
    /\ apiKey
    /\ file.doc # <<>>
    /\ query.entries = <<>>
    /\ query.run.text = Some(NoTransactions("Semanal"))

RECURSIVE SumTotals(_, _, _)
\* the sum of the totals of the entries from k on that are of type sale
\* (sale = TRUE) or of any other type (sale = FALSE)
SumTotals(entries, sale, k) ==
    IF k > Len(entries) THEN 0
    ELSE (IF (entries[k].type = "sale") = sale THEN entries[k].total ELSE 0)
             + SumTotals(entries, sale, k + 1)

\* C15: the Stats of every entry sequence have profit = total_sales -
\* total_expenses, total_sales being the sum of the totals of the entries of
\* type sale and total_expenses the sum of the totals of all other entries.
C15_Profit ==
    (query.op = "summary" /\ query.run.stats # None) =>
        With(query.run.stats[1], LAMBDA stats :
            /\ stats.total_sales = SumTotals(query.entries, TRUE, 1)
            /\ stats.total_expenses = SumTotals(query.entries, FALSE, 1)
            /\ stats.profit = stats.total_sales - stats.total_expenses
            /\ stats.num_sales + stats.num_expenses = Len(query.entries))

\* Stats with a loss, over sales and expenses, one of the expenses filed
\* under the revenue category.
C15_Witness ==
    /\ query.op = "summary"
    /\ query.run.stats # None
    /\ query.run.stats[1].profit < 0
    /\ query.run.stats[1].total_sales > 0
    /\ \E k \in 1..Len(query.entries) :
           query.entries[k].type = "expense" /\ query.entries[k].category = "sales"

RECURSIVE AllItems(_, _)
\* the items of the entries from k on, in input order
AllItems(entries, k) ==
    IF k > Len(entries) THEN <<>> ELSE entries[k].items \o AllItems(entries, k + 1)

RECURSIVE SumOfName(_, _, _)
\* the sum of quantity x unit price over the items from k on that have the name
SumOfName(items, name, k) ==
    IF k > Len(items) THEN 0
    ELSE (IF items[k]["name"] = name THEN items[k]["qty"] * items[k]["unit_price"] ELSE 0)
             + SumOfName(items, name, k + 1)

\* the position at which the name first appears among the items
FirstAppearance(items, name) == Least({k \in 1..Len(items) : items[k]["name"] = name})

\* the name a ranks before the name b: greater total, or equal total and
\* earlier first appearance
RanksBefore(items, a, b) ==
    \/ SumOfName(items, a, 1) > SumOfName(items, b, 1)
    \/ /\ SumOfName(items, a, 1) = SumOfName(items, b, 1)
       /\ FirstAppearance(items, a) < FirstAppearance(items, b)

\* C16: top_items holds at most 5 {name, total} pairs of different names;
\* each total is the sum of quantity x unit price over every item of that
\* name in all the entries; the pairs are in descending order of total, equal
\* totals in the order in which the names first appear in the input; and
\* every name left out ranks after every name listed.
C16_TopItems ==
    (query.op = "summary" /\ query.run.stats # None) =>
        With(query.run.stats[1].top_items, LAMBDA top :
        With(AllItems(query.entries, 1), LAMBDA items :
        With({items[k]["name"] : k \in 1..Len(items)}, LAMBDA names :
            /\ Len(top) = IF Cardinality(names) < 5 THEN Cardinality(names) ELSE 5
            /\ \A k \in 1..Len(top) :
                   /\ top[k].name \in names
                   /\ top[k].total = SumOfName(items, top[k].name, 1)
            /\ \A k \in 1..Len(top) : \A l \in 1..Len(top) :
                   k < l => RanksBefore(items, top[k].name, top[l].name)
            /\ \A n \in names \ {top[k].name : k \in 1..Len(top)} :
                   \A k \in 1..Len(top) : RanksBefore(items, top[k].name, n))))

\* Stats over more than five item names, the first two listed with equal
\* totals, the first of them from a later entry than a name listed after
\* them, and one name summed over two entries.
C16_Witness ==
    /\ query.op = "summary"
    /\ query.run.stats # None
    /\ With(query.run.stats[1].top_items, LAMBDA top :
       With(AllItems(query.entries, 1), LAMBDA items :
           /\ Len(top) = 5
           /\ Cardinality({items[k]["name"] : k \in 1..Len(items)}) > 5
           /\ top[1].total = top[2].total
           /\ FirstAppearance(items, top[1].name) > FirstAppearance(items, top[5].name)))

\* Stats in which one item name is summed over two entries.
C16_WitnessAcrossEntries ==
    /\ query.op = "summary"
    /\ query.run.stats # None
    /\ \E k \in 1..Len(query.run.stats[1].top_items) :
           /\ query.run.stats[1].top_items[k].name = "Bolo de cenoura"
           /\ query.run.stats[1].top_items[k].total = 80000

\* C17: when total_expenses > total_sales > 0 the recommendation is the
\* review of supplier costs if expenses / sales > 1.5 and the 10-15% price
\* increase or input-cost reduction if not (also at a ratio of exactly 1.5);
\* when total_sales = 0 the ratio is not computed: the advisor raises no
\* division error and gives neither of the two.
C17_RatioBranch ==
    (query.op = "summary" /\ query.run.stats # None) =>
        With(query.run.stats[1], LAMBDA stats :
        With(_generate_action(stats), LAMBDA action :
            /\ ~action.raised
            /\ (stats.total_expenses > stats.total_sales /\ stats.total_sales > 0) =>
                  action.value = IF 2 * stats.total_expenses > 3 * stats.total_sales
                                 THEN SupplierAdvice ELSE PricingAdvice
            /\ stats.total_sales = 0 => action.value \notin {SupplierAdvice, PricingAdvice}
            /\ ~apiKey => /\ query.run.action = Some(action.value)
                          /\ CountAt("\n" \o ActionMark \o action.value,
                                     query.run.text[1], 1) = 1))

\* Expenses of 200.00 against sales of 100.00: the summary recommends the
\* review of supplier costs.
C17_Witness ==
    /\ query.op = "summary"
    /\ query.run.stats # None
    /\ query.run.stats[1].total_expenses = 200000
    /\ query.run.stats[1].total_sales = 100000
    /\ query.run.action = Some(SupplierAdvice)

\* Expenses of exactly one and a half times the sales: the pricing advice.
C17_WitnessExact ==
    /\ query.op = "summary"
    /\ query.run.stats # None
    /\ query.run.stats[1].total_expenses = 150000
    /\ query.run.stats[1].total_sales = 100000
    /\ query.run.action = Some(PricingAdvice)

\* Expenses and no sales: another recommendation, no division.
C17_WitnessNoSales ==
    /\ query.op = "summary"
    /\ query.run.stats # None
    /\ query.run.stats[1].total_expenses > 0
    /\ query.run.stats[1].total_sales = 0
    /\ query.run.action # None

-----------------------------------------------------------------------------
(* Currency specification: _parse_brazilian_number and _format_brl on      *)
(* Brazilian-format money strings                                          *)

\* integer parts, plain or with '.' between the groups of three digits
MoneyWholes == {"0", "7", "40", "205", "1234", "1.234", "10.000", "1.234.567"}

\* no centavos, or ',' and one or two digits
MoneyCents == {"", ",5", ",50", ",05", ",99"}

MoneyPrefixes == {"", "R$", "R$ "}

MoneyStrings == {p \o w \o c : p \in MoneyPrefixes, w \in MoneyWholes, c \in MoneyCents}

InitCurrency ==
    /\ frontend = "cli"
    /\ apiKey = FALSE
    /\ today \in ClockDates
    /\ file = AbsentFile
    /\ inflight = {}
    /\ received = 0
    /\ query = NoQuery

\* s parsed, the amount formatted, the formatted string parsed again
RoundTrip ==
    \E s \in MoneyStrings :
        /\ query = NoQuery
        /\ query' = With(_parse_brazilian_number(s), LAMBDA parsed :
                    With(IF parsed = None THEN None ELSE Some(_format_brl(parsed[1])),
                         LAMBDA formatted :
                        [op |-> "money", s |-> s, parsed |-> parsed,
                         formatted |-> formatted,
                         reparsed |-> IF formatted = None THEN None
                                      ELSE _parse_brazilian_number(formatted[1])]))
        /\ UNCHANGED <<frontend, apiKey, today, file, inflight, received>>

NextCurrency == RoundTrip

SpecCurrency == InitCurrency /\ [][NextCurrency]_vars

\* C18: for every valid Brazilian-format money string s, with or without
\* the R$ prefix, parsing s gives an amount, and formatting that amount and
\* parsing the result gives the same amount again.
C18_RoundTrip ==
    query.op = "money" =>
        /\ query.parsed # None
        /\ query.reparsed = query.parsed

\* An amount with thousands and centavos, written without separator and
\* with one decimal digit, comes back from the text R$1.234,50.
C18_Witness ==
    /\ query.op = "money"
    /\ query.s = "1234,5"
    /\ query.parsed = Some(1234500)
    /\ query.formatted = Some("R$1.234,50")
    /\ query.reparsed = Some(1234500)

-----------------------------------------------------------------------------
(* Extraction specification: _extract_with_regex on receipt bodies put     *)
(* together from the lines of the sample receipts                          *)

ReceiptHeads == {"RECIBO DE VENDA", "NOTA FISCAL"}

\* item lines of the three families, three of them for the same name, one
\* with a price that is no number and two with the quantity 0
ReceiptItemLines ==
    {"Produto: Bolo  Qtd: 2  Valor: R$35,00",
     "Produto: Brigadeiro (cento)  Qtd: 1  Valor: R$80,00",
     "Bolo  1x  R$40,00",
     "Bolo   40,00",
     "Entrega                R$10,00",
     "Suco  2x  R$1,2,3",
     "Torta  0x  R$40,00",
     "Produto: Pudim  Qtd: 0  Valor: R$5,00"}

\* the lines that close a receipt
ReceiptTails ==
    {"", "\nTOTAL: R$109,80", "\nValor: R$800,00", "\nSUBTOTAL: R$100,00\nTOTAL: R$90,00",
     "\nTOTAL....... R$50,00"}

\* the empty text, and a head, two item lines and a tail
ReceiptBodies ==
    {""} \cup
    {h \o "\n" \o a \o "\n" \o b \o t :
        h \in ReceiptHeads, a \in ReceiptItemLines, b \in ReceiptItemLines, t \in ReceiptTails}

\* captions: none, and one with a total line, an item line, a sale keyword
\* and a date
ReceiptCaptions == {"", "TOTAL: R$5,00\nCafe  3x  R$1,00\npix recebido 02/01/2026"}

InitExtract ==
    /\ frontend = "cli"
    /\ apiKey = FALSE
    /\ today \in ClockDates
    /\ file = AbsentFile
    /\ inflight = {}
    /\ received = 0
    /\ query = NoQuery

\* extract_fields(raw_text, user_message) with no service configured
Extract ==
    \E raw \in ReceiptBodies, caption \in ReceiptCaptions :
        /\ query = NoQuery
        /\ query' = [op |-> "extract", raw |-> raw, caption |-> caption,
                     raised |-> extract_fields(raw, caption, apiKey, CallRaised, today).raised,
                     tx |-> extract_fields(raw, caption, apiKey, CallRaised, today).value[1]]
        /\ UNCHANGED <<frontend, apiKey, today, file, inflight, received>>

NextExtract == Extract

SpecExtract == InitExtract /\ [][NextExtract]_vars

\* the matches of a family's pattern in the text that the family's loop
\* would keep if no name had been captured yet, as items
FamilyCandidates(family, text) ==
    With(FindIter(family, text, Lower(text), 1), LAMBDA ms :
        SelectSeq([k \in 1..Len(ms) |->
                      [family |-> family, name |-> Strip(ms[k].name),
                       qty |-> ms[k].tail.qty,
                       price |-> _parse_brazilian_number(ms[k].tail.price)]],
                  LAMBDA c : Captures(family, c.name, c.price, {})))

\* the candidates of the three families, in the order of the families
Candidates(text) ==
    FamilyCandidates(1, text) \o FamilyCandidates(2, text) \o FamilyCandidates(3, text)

RECURSIVE FirstOfEachName(_, _)
\* of the candidates from k on, those whose name no earlier candidate has
FirstOfEachName(cands, k) ==
    IF k > Len(cands) THEN <<>>
    ELSE (IF \E j \in 1..(k - 1) : cands[j].name = cands[k].name THEN <<>>
          ELSE <<[name |-> cands[k].name, qty |-> cands[k].qty,
                  unit_price |-> cands[k].price[1]]>>)
             \o FirstOfEachName(cands, k + 1)

\* C19: the extracted items have pairwise different names; they are the
\* first capture of each name, the families taken in the order labeled,
\* quantity-multiplier, bare name/price; and a name captured by the labeled
\* family is in the list once, with the quantity and price of its labeled
\* line, whatever the other families match under that name.
C19_ItemDedup ==
    query.op = "extract" =>
        With(query.tx["items"], LAMBDA items :
        With(Candidates(query.raw), LAMBDA cands :
            /\ \A i \in 1..Len(items) : \A j \in 1..Len(items) :
                   i # j => items[i]["name"] # items[j]["name"]
            /\ items = FirstOfEachName(cands, 1)
            /\ \A n \in {c \in 1..Len(cands) : cands[c].family = 1} :
                   \E i \in 1..Len(items) :
                       /\ items[i]["name"] = cands[n].name
                       /\ \E m \in 1..n :
                              /\ cands[m].family = 1
                              /\ cands[m].name = items[i]["name"]
                              /\ items[i]["qty"] = cands[m].qty
                              /\ items[i]["unit_price"] = cands[m].price[1]))

\* A receipt whose labeled line and quantity-multiplier line name the same
\* item: one item, with the quantity and price of the labeled line.
C19_Witness ==
    /\ query.op = "extract"
    /\ query.tx["items"] = <<[name |-> "Bolo", qty |-> 2, unit_price |-> 35000]>>
    /\ \E k \in 1..Len(Candidates(query.raw)) :
           /\ Candidates(query.raw)[k].family = 2
           /\ Candidates(query.raw)[k].name = "Bolo"
           /\ Candidates(query.raw)[k].price = Some(40000)


\* The total the receipt states, read line by line: the line of the text that
\* starts at index a
LineAt(s, a) ==
    With(Find("\n", s, a), LAMBDA nl : SubSeq(s, a, IF nl = 0 THEN Len(s) ELSE nl - 1))

\* the money token a line ends with, as a number, or None
TrailingAmount(line) ==
    With(Strip(line), LAMBDA t :
    With({a \in 1..Len(t) : \A k \in a..Len(t) : IsAmountChar(CharAt(t, k))}, LAMBDA run :
        IF run = {} THEN None
        ELSE _parse_brazilian_number(SubSeq(t, Least(run), Len(t)))))

\* the starts of the lines that begin with the word and end with a money token
AmountLines(raw, word) ==
    {a \in 1..Len(raw) : /\ IsLineStart(raw, a)
                         /\ StartsAt(Lower(Strip(LineAt(raw, a))), 1, word)
                         /\ TrailingAmount(LineAt(raw, a)) # None}

\* the total by the stated precedence: the first TOTAL line, else the first
\* "Valor:" line, else the sum of the items, else zero
ExpectedTotal(raw, items) ==
    IF AmountLines(raw, "total") # {}
    THEN TrailingAmount(LineAt(raw, Least(AmountLines(raw, "total"))))[1]
    ELSE IF AmountLines(raw, "valor:") # {}
    THEN TrailingAmount(LineAt(raw, Least(AmountLines(raw, "valor:"))))[1]
    ELSE IF items # <<>> THEN SumItems(items, 1)
    ELSE 0

\* C20: the extracted total is the money token of the explicit TOTAL line if
\* the body has one, else the amount of the line that starts with "Valor:",
\* else the sum of qty * unit_price over the extracted items, else zero.
C20_TotalPrecedence ==
    query.op = "extract" =>
        query.tx["total"] = ExpectedTotal(query.raw, query.tx["items"])

\* every line of the text that holds the word "total" starts with "total:"
PlainTotalLines(raw) ==
    \A a \in 1..Len(raw) :
        (IsLineStart(raw, a) /\ Contains("total", Lower(LineAt(raw, a))))
            => StartsAt(Lower(LineAt(raw, a)), 1, "total:")

\* The precedence holds on the receipts whose only lines with the word
\* "total" are of the form "TOTAL: <amount>".
TotalPrecedenceOnPlainTotals ==
    (query.op = "extract" /\ PlainTotalLines(query.raw)) =>
        query.tx["total"] = ExpectedTotal(query.raw, query.tx["items"])

\* an explicit total that disagrees with the item sum wins
TotalWinsOverItems ==
    /\ query.op = "extract"
    /\ query.tx["total"] = 109800
    /\ query.tx["items"] # <<>>
    /\ SumItems(query.tx["items"], 1) # 109800

\* no TOTAL line, labeled items summing to 150.00: the sum is the total
TotalFromItems ==
    /\ query.op = "extract"
    /\ AmountLines(query.raw, "total") = {}
    /\ query.tx["type"] = "sale"
    /\ Len(query.tx["items"]) = 2
    /\ query.tx["total"] = 150000

-----------------------------------------------------------------------------
(* Quick entries: _parse_quick_entry on messages built from a leading      *)
(* word, an amount and a free text                                         *)

\* leading words: the word, the type it stands for ("" when it is not a verb
\* of the vocabulary) and its capitalized form
QuickWords ==
    {<<"sale", "sale", "Sale">>, <<"Venda", "sale", "Venda">>,
     <<"vendas", "sale", "Vendas">>, <<"RECEITA", "sale", "Receita">>,
     <<"despesa", "expense", "Despesa">>, <<"Gasto", "expense", "Gasto">>,
     <<"expense", "expense", "Expense">>, <<"compra", "expense", "Compra">>,
     <<"sales", "", "">>, <<"pagar", "", "">>}

\* amounts as written and the number they denote, in thousandths: plain
\* (digits, ',' before the centavos, '.' between groups of three), written
\* with a decimal point, or not a number
QuickAmounts ==
    {<<"85", "plain", 85000>>, <<"12,50", "plain", 12500>>,
     <<"R$ 150", "plain", 150000>>, <<"1.234,56", "plain", 1234560>>,
     <<"85.50", "point", 85500>>, <<"1,2,3", "none", 0>>, <<"abc", "none", 0>>}

\* what follows the amount, and the free text in it
QuickRests ==
    {<<"", "">>, <<" custom cake order", "custom cake order">>,
     <<"  fornecedor  ", "fornecedor">>}

QuickText(word, amount, rest) == word[1] \o " " \o amount[1] \o rest[1]

InitQuick ==
    /\ frontend = "cli"
    /\ apiKey = FALSE
    /\ today \in ClockDates
    /\ file = AbsentFile
    /\ inflight = {}
    /\ received = 0
    /\ query = NoQuery

\* process_text_message on a text that is no command: the quick-entry parse
\* and the handler up to its first access to the ledger file
ParseQuick ==
    \E word \in QuickWords, amount \in QuickAmounts, rest \in QuickRests :
        /\ query = NoQuery
        /\ query' = [op |-> "quick", word |-> word, amount |-> amount, rest |-> rest,
                     text |-> QuickText(word, amount, rest),
                     tx |-> _parse_quick_entry(QuickText(word, amount, rest), today),
                     handler |-> process_text_message(
                                     [kind |-> "text", image |-> "",
                                      body |-> QuickText(word, amount, rest)],
                                     apiKey, today, CallRaised)]
        /\ UNCHANGED <<frontend, apiKey, today, file, inflight, received>>

NextQuick == ParseQuick

SpecQuick == InitQuick /\ [][NextQuick]_vars

\* the Transaction the message stands for, from the parts it was built of
QuickExpected(word, amount, rest, text, now) ==
    IF word[2] = "" \/ amount[2] = "none" THEN None
    ELSE Some([date |-> now, total |-> amount[3], items |-> <<>>, type |-> word[2],
               description |-> IF rest[2] # "" THEN rest[2] ELSE word[3],
               raw_text |-> text])

\* C21: <verb> <amount> [description] with a verb of the vocabulary yields a
\* Transaction with no items, the verb's type, the amount as total and the
\* free text (or the capitalized verb) as description; any other input yields
\* no Transaction and the handler answers without touching the ledger.
C21_QuickEntry ==
    query.op = "quick" =>
        /\ query.tx = QuickExpected(query.word, query.amount, query.rest, query.text, today)
        /\ query.tx = None => query.handler.pc = "done" /\ query.handler.reply = "clarify"

\* The same for the amounts written without a decimal point.
QuickEntryOnPlainAmounts ==
    (query.op = "quick" /\ query.amount[2] # "point") =>
        /\ query.tx = QuickExpected(query.word, query.amount, query.rest, query.text, today)
        /\ query.tx = None => query.handler.pc = "done" /\ query.handler.reply = "clarify"

\* An amount written with a decimal point yields a Transaction whose total is
\* neither the amount nor absent.
QuickPointAmount ==
    /\ query.op = "quick"
    /\ query.text = "sale 85.50 custom cake order"
    /\ query.tx # None
    /\ query.tx[1]["total"] = 8550000

\* Scenario C
QuickScenarioC ==
    /\ query.op = "quick"
    /\ query.text = "sale 85 custom cake order"
    /\ query.tx = Some([date |-> today, total |-> 85000, items |-> <<>>, type |-> "sale",
                        description |-> "custom cake order",
                        raw_text |-> "sale 85 custom cake order"])
    /\ query.handler.pc = "load"

\* the item line whose price token is no number
MalformedLine == "Suco  2x  R$1,2,3"

\* the text s without the leftmost occurrence of the text p
RemoveFirst(s, p) ==
    With({i \in 1..Len(s) : StartsAt(s, i, p)}, LAMBDA at :
        IF at = {} THEN s
        ELSE SubSeq(s, 1, Least(at) - 1) \o SubSeq(s, Least(at) + Len(p), Len(s)))

\* the text without its lines MalformedLine (a receipt of the model has two
\* item lines)
WithoutMalformed(raw) ==
    RemoveFirst(RemoveFirst(raw, "\n" \o MalformedLine), "\n" \o MalformedLine)

C22_WitnessEmpty ==
    /\ query.op = "extract"
    /\ query.raw = ""
    /\ query.caption = ""
    /\ query.tx["description"] = "Compra em Despesa"

-----------------------------------------------------------------------------
(* Dates: _parse_date on the text of a receipt with up to two dates and a  *)
(* caption with or without one                                             *)

\* dates as written and the calendar date they denote in ISO form ("" when
\* there is none: no date written, or not a date of the calendar)
DateTokens ==
    {<<"", "">>, <<"15/01/2026", "2026-01-15">>, <<"5-3-2026", "2026-03-05">>,
     <<"29/02/2024", "2024-02-29">>, <<"31/04/2026", "">>, <<"29/02/2025", "">>,
     <<"00/01/2026", "">>, <<"1/13/2026", "">>}

DateCaptions == {<<"", "">>, <<"pago 02/01/2026", "2026-01-02">>}

DatedReceipt(first, second) ==
    "NOTA FISCAL " \o first[1] \o "\nVencimento " \o second[1] \o "\nBolo  1x  R$40,00"

InitDate ==
    /\ frontend = "cli"
    /\ apiKey = FALSE
    /\ today \in ClockDates
    /\ file = AbsentFile
    /\ inflight = {}
    /\ received = 0
    /\ query = NoQuery

\* _extract_with_regex: tx_date = _parse_date(combined)
ParseDate ==
    \E first \in DateTokens, second \in DateTokens, caption \in DateCaptions :
        /\ query = NoQuery
        /\ query' = [op |-> "date", first |-> first, second |-> second, caption |-> caption,
                     date |-> _extract_with_regex(DatedReceipt(first, second),
                                                  caption[1], today).date]
        /\ UNCHANGED <<frontend, apiKey, today, file, inflight, received>>

NextDate == ParseDate

SpecDate == InitDate /\ [][NextDate]_vars

\* the first calendar date written in the combined text, or today
ExpectedDate(first, second, caption, now) ==
    IF first[2] # "" THEN first[2]
    ELSE IF second[2] # "" THEN second[2]
    ELSE IF caption[2] # "" THEN caption[2]
    ELSE now

\* C23: the date is the calendar date of a valid D[D]/M[M]/YYYY match of the
\* combined text; a match that is no calendar date is discarded; the date is
\* today's exactly when the combined text holds no valid match.
C23_DateOrToday ==
    query.op = "date" =>
        /\ query.date = ExpectedDate(query.first, query.second, query.caption, today)
        /\ (query.first[2] = "" /\ query.second[2] = "" /\ query.caption[2] = "")
               <=> query.date = today

\* the leftmost date written in the combined text ("" when none is written)
LeftmostWritten(first, second, caption) ==
    IF first[1] # "" THEN first
    ELSE IF second[1] # "" THEN second
    ELSE caption

\* The same where the leftmost date written is a calendar date or no date is
\* written at all; an invalid leftmost date gives today's date.
DateOfLeftmostMatch ==
    query.op = "date" =>
        With(LeftmostWritten(query.first, query.second, query.caption), LAMBDA leftmost :
            query.date = IF leftmost[2] # "" THEN leftmost[2] ELSE today)

\* an invalid date before a valid one: today's date, not the valid one
DateAfterInvalidLost ==
    /\ query.op = "date"
    /\ query.first[1] = "31/04/2026"
    /\ query.second[1] = "15/01/2026"
    /\ query.date = today

\* C24: every item of every extracted Transaction has a quantity of at least
\* 1 and a unit price that is not negative.
C24_ItemQuantities ==
    query.op = "extract" =>
        \A k \in 1..Len(query.tx["items"]) :
            /\ query.tx["items"][k]["qty"] >= 1
            /\ query.tx["items"][k]["unit_price"] >= 0

\* a line with the quantity token 0 of the given family's shape
HasZeroQuantity(raw) ==
    Contains("Torta  0x  R$40,00", raw) \/ Contains("Produto: Pudim  Qtd: 0  Valor: R$5,00", raw)

\* The same on the receipts without a quantity token 0; there the unit price
\* is positive as well.
ItemQuantitiesWithoutZero ==
    (query.op = "extract" /\ ~HasZeroQuantity(query.raw)) =>
        \A k \in 1..Len(query.tx["items"]) :
            /\ query.tx["items"][k]["qty"] >= 1
            /\ query.tx["items"][k]["unit_price"] > 0

\* a quantity-multiplier line and a labeled line with the quantity 0 both
\* become items of quantity 0
ZeroQuantityItems ==
    /\ query.op = "extract"
    /\ query.tx["items"] = <<[name |-> "Pudim", qty |-> 0, unit_price |-> 5000],
                             [name |-> "Torta", qty |-> 0, unit_price |-> 40000]>>
    /\ query.tx["total"] = 0

\* C25: the caption has no influence on the items and the total: for a
\* receipt body and any two captions the extracted items and total are the
\* same; the date and the type may differ.
C25_CaptionIndependence ==
    query.op = "extract" =>
        \A caption \in ReceiptCaptions :
            With(_extract_with_regex(query.raw, caption, today), LAMBDA other :
                /\ query.tx["items"] = other.items
                /\ query.tx["total"] = other.total)

\* a receipt without total line sent with the caption that holds a total
\* line, an item line, a sale keyword and a date: items and total are those
\* of the body, type and date those of the caption
C25_Witness ==
    /\ query.op = "extract"
    /\ query.raw = "NOTA FISCAL\nBolo  1x  R$40,00\nEntrega                R$10,00"
    /\ query.caption # ""
    /\ query.tx["items"] = <<[name |-> "Bolo", qty |-> 1, unit_price |-> 40000],
                             [name |-> "Entrega", qty |-> 1, unit_price |-> 10000]>>
    /\ query.tx["total"] = 50000
    /\ query.tx["type"] = "sale"
    /\ query.tx["date"] = "2026-01-02"
    /\ _extract_with_regex(query.raw, "", today).type = "expense"
    /\ _extract_with_regex(query.raw, "", today).date = today

\* C26: for an expense the category is that of the first keyword of the rule
\* table, in the table's order, that occurs in the lower-cased text of
\* description, raw text and item names, whatever later keywords occur; with
\* no keyword in the text and no service configured it is "other".
C26_FirstMatchWins ==
    (query.op = "categorize" /\ query.tx["type"] = "expense") =>
        With(Searchable(query.tx), LAMBDA text :
            /\ \A k \in 1..Len(CATEGORY_RULES) :
                   (/\ Contains(CATEGORY_RULES[k][1], text)
                    /\ \A j \in 1..(k - 1) : ~Contains(CATEGORY_RULES[j][1], text))
                       => query.out = [raised |-> FALSE, value |-> CATEGORY_RULES[k][2]]
            /\ ((\A k \in 1..Len(CATEGORY_RULES) : ~Contains(CATEGORY_RULES[k][1], text))
                    /\ ~apiKey)
                   => query.out = [raised |-> FALSE, value |-> "other"])

\* "rent" inside "parent" comes before "lunch" in the table: the expense is
\* rent, although "lunch" is the longer keyword and a word of the text
C26_Witness ==
    /\ query.op = "categorize"
    /\ query.tx["type"] = "expense"
    /\ query.tx["description"] = "lunch with parent"
    /\ Contains("lunch", Searchable(query.tx))
    /\ query.out = [raised |-> FALSE, value |-> "rent"]

\* three keywords of three categories: the one first in the table wins,
\* though it is the last in the text
C26_WitnessThree ==
    /\ query.op = "categorize"
    /\ query.tx["description"] = "conserto do telefone do fornecedor"
    /\ query.out = [raised |-> FALSE, value |-> "supplies"]

\* no keyword, no service
C26_WitnessOther ==
    /\ query.op = "categorize"
    /\ ~apiKey
    /\ query.tx["type"] = "expense"
    /\ query.rule = None
    /\ query.out = [raised |-> FALSE, value |-> "other"]

\* branch 1 of the advisor: total_expenses > total_sales > 0
BranchOne(stats) == stats.total_expenses > stats.total_sales /\ stats.total_sales > 0

\* the positions of by_category that hold a key other than "sales"
CostPositions(stats) ==
    {k \in 1..Len(stats.by_category) : stats.by_category[k][1] # "sales"}

\* branch 2 of the advisor
BranchTwo(stats) == ~BranchOne(stats) /\ stats.profit > 0 /\ CostPositions(stats) # {}

\* C27: when branch 1 does not apply, profit > 0 and by_category has a key
\* other than "sales", the recommendation names the key other than "sales"
\* with the greatest amount, the first of them in the order of by_category
\* when several have it; "sales" is never named.
C27_TopCost ==
    (query.op = "summary" /\ query.run.stats # None) =>
        With(query.run.stats[1], LAMBDA stats :
            BranchTwo(stats) =>
                \E k \in CostPositions(stats) :
                    /\ \A j \in CostPositions(stats) :
                           /\ stats.by_category[j][2] <= stats.by_category[k][2]
                           /\ j < k => stats.by_category[j][2] < stats.by_category[k][2]
                    /\ _generate_action(stats) =
                           [raised |-> FALSE,
                            value |-> TopExpenseAdvice(stats.by_category[k][1],
                                                       _format_brl(stats.by_category[k][2]))]
                    /\ ~apiKey => query.run.action = Some(_generate_action(stats).value))

\* sales of 100.00 and a transport expense of 60.00: transport is named,
\* though "sales" holds the greater amount
C27_Witness ==
    /\ query.op = "summary"
    /\ ~apiKey
    /\ query.run.stats # None
    /\ query.run.stats[1].by_category = <<<<"sales", 100000>>, <<"transport", 60000>>>>
    /\ query.run.action = Some(TopExpenseAdvice("transport", "R$60,00"))

\* phone and food both at 30.00, phone recorded first: phone is named
C27_WitnessTie ==
    /\ query.op = "summary"
    /\ ~apiKey
    /\ Len(query.entries) = 3
    /\ query.entries[1].category = "sales"
    /\ query.entries[2].category = "phone"
    /\ query.entries[3].category = "food"
    /\ query.run.action = Some(TopExpenseAdvice("phone", "R$30,00"))

\* the same with food recorded first: food is named
C27_WitnessTieReversed ==
    /\ query.op = "summary"
    /\ ~apiKey
    /\ Len(query.entries) = 3
    /\ query.entries[1].category = "food"
    /\ query.entries[2].category = "phone"
    /\ query.entries[3].category = "sales"
    /\ query.run.action = Some(TopExpenseAdvice("food", "R$30,00"))

\* C28: when neither branch 1 nor branch 2 applies, the recommendation is
\* the price increase on top_items[0], the item of the greatest value, if
\* top_items is not empty, and the generic encouragement if it is.
C28_FallThrough ==
    (query.op = "summary" /\ query.run.stats # None) =>
        With(query.run.stats[1], LAMBDA stats :
        With(AllItems(query.entries, 1), LAMBDA items :
            (~BranchOne(stats) /\ ~BranchTwo(stats)) =>
                /\ _generate_action(stats) =
                       [raised |-> FALSE,
                        value |-> IF stats.top_items # <<>>
                                  THEN TopItemAdvice(stats.top_items[1])
                                  ELSE GenericAdvice]
                /\ stats.top_items = <<>> <=> items = <<>>
                /\ stats.top_items # <<>> =>
                       \A k \in 1..Len(items) :
                           SumOfName(items, items[k]["name"], 1) <= stats.top_items[1].total
                /\ ~apiKey => query.run.action = Some(_generate_action(stats).value)))

\* profit > 0 with the revenue category alone: the price increase on the
\* item of 60.00, not on the one of 40.00 listed first in the entry
C28_Witness ==
    /\ query.op = "summary"
    /\ ~apiKey
    /\ query.run.stats # None
    /\ query.run.stats[1].profit > 0
    /\ query.run.stats[1].by_category = <<<<"sales", 100000>>>>
    /\ query.run.action = Some(TopItemAdvice([name |-> "Torta de limão", total |-> 60000]))

\* expenses equal to sales: the price increase on the top item
C28_WitnessEqual ==
    /\ query.op = "summary"
    /\ ~apiKey
    /\ query.run.stats # None
    /\ query.run.stats[1].total_sales = 100000
    /\ query.run.stats[1].total_expenses = 100000
    /\ query.run.action = Some(TopItemAdvice(query.run.stats[1].top_items[1]))

\* expenses and no sales, no items: the generic encouragement
C28_WitnessGeneric ==
    /\ query.op = "summary"
    /\ ~apiKey
    /\ query.run.stats # None
    /\ query.run.stats[1].total_sales = 0
    /\ query.run.stats[1].total_expenses > 0
    /\ query.run.stats[1].top_items = <<>>
    /\ query.run.action = Some(GenericAdvice)

\* the messages of the three kinds that record or remove transactions: a
\* receipt image, a reset command, a valid quick entry
ChangesLedger(msg) ==
    \/ msg.kind = "image"
    \/ Lower(Strip(msg.body)) \in {"limpar", "reset", "clear"}
    \/ /\ Lower(Strip(msg.body)) \notin {"resumo", "resumo semanal", "summary", "weekly",
                                         "ajuda", "help", "?"}
       /\ _parse_quick_entry(msg.body, today) # None

\* C29: only receipts, quick entries and reset change the ledger.  The
\* handler of a summary command, a help command or a text that gets the
\* clarification never reaches add_entry or _save, and under the interactive
\* loop the file is, as long as the handler lives, as it was when its message
\* arrived; every step that changes the file is a step of _save by a handler
\* of one of the three kinds.
C29_Frame ==
    /\ [](\A h \in inflight :
            ~ChangesLedger(h.msg) =>
                /\ h.pc \in {"week", "done"}
                /\ h.entry = None
                /\ frontend = "cli" => file = h.pre)
    /\ [][file' # file =>
            \E h \in inflight :
                /\ h.pc \in {"open", "write"}
                /\ h \notin inflight'
                /\ ChangesLedger(h.msg)]_vars

\* the clarification is the reply to the second message, and the ledger
\* still holds the two entries it held when the message arrived
C29_Witness ==
    \E h \in inflight :
        /\ h.msg.body = "bom dia"
        /\ Returned(h, "clarify")
        /\ file.kind = "whole"
        /\ Len(file.doc) = 2
        /\ file = h.pre

\* the same after the help command
C29_WitnessHelp ==
    \E h \in inflight :
        /\ h.msg.body = "ajuda"
        /\ Returned(h, "help")
        /\ file.kind = "whole"
        /\ Len(file.doc) = 2
        /\ file = h.pre

\* the same after the summary command, which has read the week's entry
C29_WitnessSummary ==
    \E h \in inflight :
        /\ h.msg.body = "resumo"
        /\ Returned(h, "summary_template")
        /\ Len(h.entries) = 1
        /\ file.kind = "whole"
        /\ Len(file.doc) = 2
        /\ file = h.pre

\* under the webhook the file changes while the handler of a help command
\* lives: the change is another handler's
C29_WitnessConcurrent ==
    \E h \in inflight :
        /\ h.msg.body = "ajuda"
        /\ Returned(h, "help")
        /\ file # h.pre

-----------------------------------------------------------------------------
(* summary_stats on any list of entries                                    *)

\* a record of the ledger file that has no "category" key
Uncategorized(date, total, type, description) ==
    [id |-> HexId(0), timestamp |-> 0, date |-> date, total |-> total, type |-> type,
     description |-> description, items |-> <<>>]

StatsEntries ==
    SummaryEntries \cup
        {Uncategorized("2026-01-06", 70000, "sale", "Encomenda"),
         Uncategorized("2026-01-07", 25000, "expense", "Taxa")}

StatsLists == UNION {[1..n -> StatsEntries] : n \in 0..MaxEntries}

InitStats ==
    /\ frontend = "cli"
    /\ apiKey = FALSE
    /\ today \in ClockDates
    /\ file = AbsentFile
    /\ inflight = {}
    /\ received = 0
    /\ query = NoQuery

\* summary_stats(entries)
Aggregate ==
    \E entries \in StatsLists :
        /\ query = NoQuery
        /\ query' = [op |-> "stats", entries |-> entries, stats |-> summary_stats(entries)]
        /\ UNCHANGED <<frontend, apiKey, today, file, inflight, received>>

NextStats == Aggregate

SpecStats == InitStats /\ [][NextStats]_vars

\* the category an entry counts under
CategoryOf(entry) == IF "category" \in DOMAIN entry THEN entry.category ELSE "other"

RECURSIVE TotalOfCategory(_, _, _)
\* the sum of the totals of the entries of the category cat, from entry k on
TotalOfCategory(entries, cat, k) ==
    IF k > Len(entries) THEN 0
    ELSE (IF CategoryOf(entries[k]) = cat THEN entries[k].total ELSE 0)
         + TotalOfCategory(entries, cat, k + 1)

RECURSIVE SumOfValues(_, _)
\* the sum of the values of the pairs of d, from pair k on
SumOfValues(d, k) == IF k > Len(d) THEN 0 ELSE d[k][2] + SumOfValues(d, k + 1)

C30_WitnessOther ==
    /\ query.op = "stats"
    /\ Len(query.entries) = 2
    /\ "category" \notin DOMAIN query.entries[1]
    /\ "category" \in DOMAIN query.entries[2]
    /\ query.stats.by_category = <<<<"other", 270000>>>>
=============================================================================
